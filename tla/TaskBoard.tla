----------------------------- MODULE TaskBoard -----------------------------
(***************************************************************************)
(* What a team promises to those who plan work on it: a board of tasks     *)
(* that wait for others, are free, are held by one member, and end.        *)
(* Attempts, assignments, mail and commands are below its horizon.         *)
(***************************************************************************)
CONSTANTS Tasks, Members, NoMember

VARIABLES
    open,       \* the board takes changes
    needs,      \* what each task waits for, fixed when it is posted
    board,      \* where each task is
    holder      \* who holds it

vars == <<open, needs, board, holder>>

Done == {k \in Tasks : board[k] = "done"}
Posted == {k \in Tasks : board[k] # "none"}

Init ==
    /\ open = FALSE
    /\ needs = [k \in Tasks |-> {}]
    /\ board = [k \in Tasks |-> "none"]
    /\ holder = [k \in Tasks |-> NoMember]

Open ==
    /\ ~open /\ Posted = {}
    /\ open' = TRUE
    /\ UNCHANGED <<needs, board, holder>>

Post(k, D) ==
    /\ k \notin Posted /\ D \subseteq Posted
    /\ needs' = [needs EXCEPT ![k] = D]
    /\ board' = [board EXCEPT ![k] = IF D \subseteq Done THEN "free" ELSE "waiting"]
    /\ UNCHANGED <<open, holder>>

(* One member holds a task, and holds no other.                            *)
Take(k, m) ==
    /\ board[k] = "free"
    /\ \A j \in Tasks : holder[j] # m
    /\ board' = [board EXCEPT ![k] = "held"]
    /\ holder' = [holder EXCEPT ![k] = m]
    /\ UNCHANGED <<open, needs>>

PutBack(k) ==
    /\ board[k] = "held"
    /\ board' = [board EXCEPT ![k] = "free"]
    /\ holder' = [holder EXCEPT ![k] = NoMember]
    /\ UNCHANGED <<open, needs>>

(* A task that is done frees, in the same step, those that waited for it   *)
(* last.                                                                   *)
Complete(k) ==
    /\ board[k] = "held"
    /\ board' = [j \in Tasks |->
                    IF j = k THEN "done"
                    ELSE IF board[j] = "waiting" /\ needs[j] \subseteq Done \cup {k}
                    THEN "free" ELSE board[j]]
    /\ holder' = [holder EXCEPT ![k] = NoMember]
    /\ UNCHANGED <<open, needs>>

Fail(k) ==
    /\ board[k] = "held"
    /\ board' = [board EXCEPT ![k] = "failed"]
    /\ holder' = [holder EXCEPT ![k] = NoMember]
    /\ UNCHANGED <<open, needs>>

(* A failed task that is tried again need not wait again.                  *)
Retry(k) ==
    /\ board[k] = "failed"
    /\ board' = [board EXCEPT ![k] = "free"]
    /\ UNCHANGED <<open, needs, holder>>

Drop(k) ==
    /\ k \in Posted /\ board[k] \notin {"done", "dropped"}
    /\ board' = [board EXCEPT ![k] = "dropped"]
    /\ holder' = [holder EXCEPT ![k] = NoMember]
    /\ UNCHANGED <<open, needs>>

(* Closing the board drops whatever has not ended.                         *)
Close ==
    /\ open' = FALSE
    /\ board' = [k \in Tasks |-> IF board[k] \in {"waiting", "free", "held"}
                                 THEN "dropped" ELSE board[k]]
    /\ holder' = [k \in Tasks |-> NoMember]
    /\ UNCHANGED needs

Change(k) ==
    \/ \E D \in SUBSET Tasks : Post(k, D)
    \/ \E m \in Members : Take(k, m)
    \/ PutBack(k) \/ Complete(k) \/ Fail(k) \/ Retry(k) \/ Drop(k)

Next == Open \/ (open /\ (Close \/ \E k \in Tasks : Change(k)))

Spec == Init /\ [][Next]_vars
=============================================================================
