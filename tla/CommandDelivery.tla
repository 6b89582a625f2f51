--------------------------- MODULE CommandDelivery ---------------------------
(***************************************************************************)
(* What the listener promises about commands, with sockets, cache, tasks   *)
(* and crashes abstracted away: a command is either tried at once and      *)
(* never stored, or stored; a stored one is tried at least once before its *)
(* row is deleted, unless no device could be sent it.  Trying again, even  *)
(* after the deletion, is allowed.                                         *)
(***************************************************************************)
CONSTANTS Command, InitialRows,
          Oversized  \* the commands no GT06 packet can hold

VARIABLES row,   \* the row of a command in table CommandQueue
          tried  \* the commands handed to a socket so far

Init == /\ row = [c \in Command |-> IF c \in InitialRows THEN "pending" ELSE "absent"]
        /\ tried = {}

(* The device is connected: the command goes straight to its socket.       *)
TryDirectly(c) == /\ row[c] = "absent" /\ c \notin tried
                  /\ tried' = tried \cup {c}
                  /\ UNCHANGED row

Store(c) == /\ row[c] = "absent" /\ c \notin tried
            /\ row' = [row EXCEPT ![c] = "pending"]
            /\ UNCHANGED tried

(* A session tries a stored command, and may delete one it has tried       *)
(* before; it may do both in one step.                                     *)
Stored == {c \in Command : row[c] # "absent"}
Deletable == {c \in tried \cup Oversized : row[c] = "pending"}
Serve(trying, gone) ==
    /\ row' = [c \in Command |-> IF c \in gone THEN "deleted" ELSE row[c]]
    /\ tried' = tried \cup trying

Next == \/ \E c \in Command : TryDirectly(c) \/ Store(c)
        \/ \E trying \in SUBSET Stored, gone \in SUBSET Deletable : Serve(trying, gone)

Spec == Init /\ [][Next]_<<row, tried>>
=============================================================================
