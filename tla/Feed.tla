-------------------------------- MODULE Feed --------------------------------
(***************************************************************************)
(* What the WebSocket hub promises (server/websocket.go), without its      *)
(* goroutines, lock and sockets: there is one log of messages, and every   *)
(* connection gets the part of it that begins where the connection joined, *)
(* without a gap, a repetition or another order.  Nobody is more than one  *)
(* message behind.                                                         *)
(***************************************************************************)
EXTENDS Integers, Sequences

CONSTANTS Connections, Messages

VARIABLES
  log,      \* the messages that were broadcast
  open,     \* connections that joined and did not leave
  start,    \* the length of the log when a connection joined
  written   \* what each connection was given

feedVars == <<log, open, start, written>>

Init ==
  /\ log = <<>>
  /\ open = {}
  /\ start = [c \in Connections |-> 0]
  /\ written = [c \in Connections |-> <<>>]

Position(c) == start[c] + Len(written[c])

\* Every open connection has been given the whole log.
UpToDate == \A c \in open : Position(c) = Len(log)

Announce(m) ==
  /\ UpToDate
  /\ log' = Append(log, m)
  /\ UNCHANGED <<open, start, written>>

\* A connection that breaks before it joins has joined and left.
Join(c) ==
  /\ UpToDate
  /\ written[c] = <<>>
  /\ open' = open \cup {c} \/ UNCHANGED open
  /\ start' = [start EXCEPT ![c] = Len(log)]
  /\ UNCHANGED <<log, written>>

Deliver(c) ==
  /\ c \in open
  /\ Position(c) < Len(log)
  /\ written' = [written EXCEPT ![c] = Append(@, log[Position(c) + 1])]
  /\ UNCHANGED <<log, open, start>>

Leave(c) ==
  /\ open' = open \ {c}
  /\ UNCHANGED <<log, start, written>>

Next ==
  \/ \E m \in Messages : Announce(m)
  \/ \E c \in Connections : Join(c) \/ Deliver(c) \/ Leave(c)

Spec == Init /\ [][Next]_feedVars

-----------------------------------------------------------------------------
(***************************************************************************)
(* What follows from it                                                    *)
(***************************************************************************)

\* What a connection was given is the part of the log from where it joined on.
\* An open one misses at most the last message.
SegmentsOfLog ==
  \A c \in Connections :
    /\ Position(c) <= Len(log)
    /\ \A i \in 1..Len(written[c]) : written[c][i] = log[start[c] + i]
    /\ c \in open => Position(c) >= Len(log) - 1

\* The log is never rewritten, and neither is what a connection was given.
OnlyAppended ==
  [][/\ SubSeq(log', 1, Len(log)) = log
     /\ \A c \in Connections :
          SubSeq(written'[c], 1, Len(written[c])) = written[c]]_feedVars

=============================================================================
