---------------------------- MODULE FifoDelivery ----------------------------
(***************************************************************************)
(* What the pipe between the backend and the extension promises: messages  *)
(* are handed over one by one, in the order in which they were written,    *)
(* each once and as it was written.  Only messages in Expendable may get   *)
(* lost; a Disconnect loses everything on its way.                         *)
(***************************************************************************)
EXTENDS Sequences

CONSTANTS Messages,
          Expendable   \* those that may get lost

VARIABLES owed,      \* messages written and neither handed over nor lost
          delivered  \* the message handed over last; <<>> before the first

fifoVars == <<owed, delivered>>

FifoInit == owed = <<>> /\ delivered = <<>>

Write(m) == owed' = Append(owed, m) /\ UNCHANGED delivered

HandOver ==
  /\ owed # <<>>
  /\ delivered' = <<Head(owed)>>
  /\ owed' = Tail(owed)

Lose ==
  /\ owed # <<>>
  /\ Head(owed) \in Expendable
  /\ owed' = Tail(owed)
  /\ UNCHANGED delivered

Disconnect == owed' = <<>> /\ UNCHANGED delivered

FifoNext == HandOver \/ Lose \/ Disconnect \/ \E m \in Messages : Write(m)

FifoSpec == FifoInit /\ [][FifoNext]_fifoVars
=============================================================================
