---------------------------- MODULE LogIndenter ----------------------------
(***************************************************************************)
(* The LogIndenter objects of src/log.cpp on top of the logs: each pushes  *)
(* an indent when it is made and pops one when it goes, and can be moved.  *)
(* The objects of a thread go in any order.  Only indenters indent here,   *)
(* and no log is destroyed that one of them refers to.                     *)
(***************************************************************************)
EXTENDS Log

CONSTANT Indenters   (* the LogIndenter objects, each made once            *)

VARIABLES
  m_log,      (* m_log of each indenter                                    *)
  made, gone  (* the indenters that were made, and that are destroyed      *)

indenterVars == <<m_log, made, gone>>
allVars == <<vars, indenterVars>>

Live == made \ gone

InitIndenters ==
  /\ Init
  /\ m_log = [i \in Indenters |-> None]
  /\ made = {}
  /\ gone = {}

-----------------------------------------------------------------------------
LogIndenter(i, l) ==
  /\ i \notin made
  /\ PushIndentInternal(l, column[l])
  /\ m_log' = [m_log EXCEPT ![i] = l]
  /\ made' = made \union {i}
  /\ UNCHANGED gone

LogIndenterOfNothing(i) ==
  /\ i \notin made
  /\ made' = made \union {i}
  /\ UNCHANGED <<vars, m_log, gone>>

(***************************************************************************)
(* LogIndenter::PopIndent, called, and by the destructor.                  *)
(***************************************************************************)
Pop(i) ==
  IF m_log[i] = None THEN UNCHANGED <<vars, m_log>>
  ELSE PopIndent(m_log[i]) /\ m_log' = [m_log EXCEPT ![i] = None]

PopEarly(i) == i \in Live /\ Pop(i) /\ UNCHANGED <<made, gone>>

Destroy(i) == i \in Live /\ Pop(i) /\ gone' = gone \union {i} /\ UNCHANGED made

(***************************************************************************)
(* The move constructor, and the move assignment.                          *)
(***************************************************************************)
\* Mutant: the moved indenter keeps its log.
CopyConstruct(i, from) ==
  /\ i \notin made
  /\ from \in Live
  /\ m_log' = [m_log EXCEPT ![i] = m_log[from]]
  /\ made' = made \union {i}
  /\ UNCHANGED <<vars, gone>>

MoveConstruct(i, from) ==
  /\ i \notin made
  /\ from \in Live
  /\ m_log' = [m_log EXCEPT ![i] = m_log[from], ![from] = None]
  /\ made' = made \union {i}
  /\ UNCHANGED <<vars, gone>>

MoveAssign(i, from) ==
  /\ {i, from} \subseteq Live
  /\ i # from
  /\ m_log' = [m_log EXCEPT ![i] = m_log[from], ![from] = None]
  /\ UNCHANGED <<vars, made, gone>>

NextIndenters ==
  \/ (Finished \/ \E l \in Logs : Write(l)) /\ UNCHANGED indenterVars
  \/ \E i \in Indenters :
       \/ LogIndenterOfNothing(i) \/ PopEarly(i) \/ Destroy(i)
       \/ \E l \in Logs : LogIndenter(i, l)
       \/ \E from \in Indenters : MoveConstruct(i, from) \/ MoveAssign(i, from)

SpecIndenters == InitIndenters /\ [][NextIndenters]_allVars

-----------------------------------------------------------------------------
Indenting(l) == {i \in Live : m_log[i] = l}

(* Every variable has its type, and an indenter that is not live has none. *)
IndentersOK ==
  /\ m_log \in [Indenters -> Logs \union {None}]
  /\ gone \subseteq made
  /\ made \subseteq Indenters
  /\ \A i \in Indenters \ Live : m_log[i] = None

(* An indenter that has a log has a push to take back: however indenters   *)
(* are moved and popped early, each takes back no more than one.           *)
OnePushEach == \A l \in Logs : Cardinality(Indenting(l)) <= stack_depth[l]

(* Pushes and pops match, also when they go deeper than the stack: a pop   *)
(* brings back the indent from before its push, and never is there an      *)
(* indenter without its push.                                              *)
PushesPaired ==
  [][/\ IndentersOK' /\ OnePushEach'
     /\ \A l \in Logs : stack_depth'[l] < stack_depth[l] => indent'[l] = Last(before[l])]_allVars

(* "The indentation level is popped at the end of the current scope": with *)
(* no indenter left for it, a log that only indenters indent has no indent.*)
IndentTakenBack == \A l \in Logs : Indenting(l) = {} => indent[l] = 0 /\ stack_depth[l] = 0
=============================================================================
