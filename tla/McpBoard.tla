------------------------------ MODULE McpBoard ------------------------------
(***************************************************************************)
(* What class CanmvMcpHandler of mcp/server.ts knows of its board, and the *)
(* backend it reaches it through (this.backend.child, this.backend.isOpen):*)
(* the state that the handler (McpTools) must keep in step.                *)
(***************************************************************************)

VARIABLES
  boardInfo,       \* is a board remembered?
  backendChild,    \* the backend process: "none", "up" or "dead"
  backendOpen      \* is a backend in use?

\* The handler remembers a board only while the backend that connected it runs or its
\* exit is still to be seen, so that the next tool connects instead of failing.
BoardNeedsBackend == boardInfo => backendChild # "none" /\ backendOpen
=============================================================================
