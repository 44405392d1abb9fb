------------------------------ MODULE LiveList ------------------------------
(***************************************************************************)
(* What the mutex metadata registry promises: the list of the mutexes that *)
(* exist, oldest first, a version that goes up by one whenever that list   *)
(* changes, and answers that are the whole list at one moment.             *)
(***************************************************************************)
EXTENDS Naturals, Sequences, SequencesExt

CONSTANTS
  Mutexes,   (* the mutexes that the program ever creates                  *)
  Callers    (* the threads that ask for the list                          *)

VARIABLES
  live,      (* the mutexes that exist, oldest first                       *)
  version,   (* Mutex::GetMetadataChangeCounter                            *)
  answer     (* what each caller was last told by Mutex::GetAllMetadata    *)

vars == <<live, version, answer>>

Listed(m) == \E i \in 1..Len(live) : live[i] = m

Init ==
  /\ live = <<>>
  /\ version = 1
  /\ answer = [c \in Callers |-> <<>>]

Create(m) ==
  /\ ~Listed(m)
  /\ live' = Append(live, m)
  /\ version' = version + 1
  /\ UNCHANGED answer

Destroy(m) ==
  /\ \E i \in 1..Len(live) : live[i] = m /\ live' = RemoveAt(live, i)
  /\ version' = version + 1
  /\ UNCHANGED answer

Tell(c) ==
  /\ answer' = [answer EXCEPT ![c] = live]
  /\ UNCHANGED <<live, version>>

Forget(c) ==
  /\ answer' = [answer EXCEPT ![c] = <<>>]
  /\ UNCHANGED <<live, version>>

Next ==
  \/ \E m \in Mutexes : Create(m) \/ Destroy(m)
  \/ \E c \in Callers : Tell(c) \/ Forget(c)

Spec == Init /\ [][Next]_vars
=============================================================================
