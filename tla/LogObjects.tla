----------------------------- MODULE LogObjects -----------------------------
(***************************************************************************)
(* The Log and LogWithTag objects of a program, in one thread: the logs    *)
(* that LOG_TAGGED_DEFINE of src/include/shared/log.h defines, each with a *)
(* tag in a list, from the initialisation of the globals to their          *)
(* destruction, and the copies that the program makes of logs, which have  *)
(* the text in the buffer too.  How a log lays out its text is in Log.     *)
(***************************************************************************)
EXTENDS Integers, FiniteSets, SequencesExt

CONSTANTS
  Defined,     (* the logs of LOG_TAGGED_DEFINE, each in a file of its own *)
  Copies,      (* Log objects made from others                             *)
  MaxChars,    (* bound: how many characters are written, each another one *)
  MaxCopies    (* bound: how often a log is copied or moved                *)

AllLogs == Defined \union Copies

VARIABLES
  phase,       (* "starting", "running", "ending"                          *)
  globals,     (* the global objects, in the order of construction         *)
  ms_first,    (* the list of tags, each named as its log                  *)
  living,      (* the Log objects between construction and destruction     *)
  m_buffer,    (* of each log                                              *)
  output,      (* what was printed                                         *)
  chars,       (* how many characters were written                         *)
  times,       (* how often a log was copied or moved                      *)
  copied,      (* the characters that were in a buffer that was copied     *)
  overwritten  (* and those in a buffer that an assignment overwrote       *)

vars == <<phase, globals, ms_first, living, m_buffer, output, chars, times, copied, overwritten>>

Init ==
  /\ phase = "starting"
  /\ globals = <<>>
  /\ ms_first = <<>>
  /\ living = {}
  /\ m_buffer = [l \in AllLogs |-> <<>>]
  /\ output = <<>>
  /\ chars = 0
  /\ times = 0
  /\ copied = {}
  /\ overwritten = {}

-----------------------------------------------------------------------------
(* The log of a file, and then its tag, which goes to the front; files are *)
(* initialised in any order.                                               *)
HasTag(l) == <<"tag", l>> \in ToSet(globals)

\* Mutant: the tag is defined before its log.
DefineTagFirst(l) ==
  /\ phase = "starting"
  /\ l \notin living
  /\ globals' = globals \o <<<<"tag", l>>, <<"log", l>>>>
  /\ living' = living \union {l}
  /\ ms_first' = <<l>> \o ms_first
  /\ UNCHANGED <<phase, m_buffer, output, chars, times, copied, overwritten>>

Define(l) ==
  /\ phase = "starting"
  /\ l \notin living
  /\ globals' = globals \o <<<<"log", l>>, <<"tag", l>>>>
  /\ living' = living \union {l}
  /\ ms_first' = <<l>> \o ms_first
  /\ UNCHANGED <<phase, m_buffer, output, chars, times, copied, overwritten>>

Main ==
  /\ phase = "starting"
  /\ Defined \subseteq living
  /\ phase' = "running"
  /\ UNCHANGED <<globals, ms_first, living, m_buffer, output, chars, times, copied, overwritten>>

-----------------------------------------------------------------------------
(* A character that stays in the buffer, and the flush of the buffer.      *)
Write(l) ==
  /\ l \in living
  /\ chars < MaxChars
  /\ chars' = chars + 1
  /\ m_buffer' = [m_buffer EXCEPT ![l] = Append(@, chars + 1)]
  /\ UNCHANGED <<phase, globals, ms_first, living, output, times, copied, overwritten>>

Flushes(l) ==
  /\ output' = output \o m_buffer[l]
  /\ m_buffer' = [m_buffer EXCEPT ![l] = <<>>]

Flush(l) ==
  /\ l \in living
  /\ Flushes(l)
  /\ UNCHANGED <<phase, globals, ms_first, living, chars, times, copied, overwritten>>

(* The constructor that copies printer and enabled flag only.              *)
ConstructLike(copy, l) ==
  /\ phase = "running"
  /\ copy \in Copies \ living
  /\ l \in living
  /\ living' = living \union {copy}
  /\ UNCHANGED <<phase, globals, ms_first, m_buffer, output, chars, times, copied, overwritten>>

(* The constructors and assignments that are "= default": to copy and to   *)
(* move are the same, and neither flushes anything.                        *)
CopyConstruct(copy, l) ==
  /\ phase = "running"
  /\ copy \in Copies \ living
  /\ l \in living
  /\ times < MaxCopies
  /\ living' = living \union {copy}
  /\ m_buffer' = [m_buffer EXCEPT ![copy] = m_buffer[l]]
  /\ times' = times + 1
  /\ copied' = copied \union ToSet(m_buffer[l])
  /\ UNCHANGED <<phase, globals, ms_first, output, chars, overwritten>>

CopyAssign(target, l) ==
  /\ {target, l} \subseteq living
  /\ target # l
  /\ times < MaxCopies
  /\ m_buffer' = [m_buffer EXCEPT ![target] = m_buffer[l]]
  /\ times' = times + 1
  /\ copied' = copied \union ToSet(m_buffer[l])
  /\ overwritten' = overwritten \union ToSet(m_buffer[target])
  /\ UNCHANGED <<phase, globals, ms_first, living, output, chars>>

(* The destructor of a log sets no printer, and that flushes.              *)
DestroyLog(l) ==
  /\ l \in living
  /\ Flushes(l)
  /\ living' = living \ {l}

DestroyCopy(copy) ==
  /\ copy \in Copies
  /\ DestroyLog(copy)
  /\ UNCHANGED <<phase, globals, ms_first, chars, times, copied, overwritten>>

(* The globals go in reverse, when the copies are gone.  That a tag is in  *)
(* the list is asserted.                                                   *)
DestroyTag(l) ==
  /\ \E i \in DOMAIN ms_first : ms_first[i] = l /\ ms_first' = RemoveAt(ms_first, i)
  /\ UNCHANGED <<living, m_buffer, output>>

DestroyGlobal ==
  /\ phase \in {"running", "ending"}
  /\ living \intersect Copies = {}
  /\ globals # <<>>
  /\ phase' = "ending"
  /\ globals' = Front(globals)
  /\ LET kind == Last(globals)[1]
         l == Last(globals)[2]
     IN  \/ kind = "tag" /\ DestroyTag(l)
         \/ kind = "log" /\ DestroyLog(l) /\ UNCHANGED ms_first
  /\ UNCHANGED <<chars, times, copied, overwritten>>

Next ==
  \/ \E l \in Defined : Define(l)
  \/ \E l \in AllLogs : Write(l) \/ Flush(l) \/ DestroyCopy(l)
  \/ \E l, m \in AllLogs : ConstructLike(l, m) \/ CopyConstruct(l, m) \/ CopyAssign(l, m)
  \/ Main \/ DestroyGlobal

Spec == Init /\ [][Next]_vars

-----------------------------------------------------------------------------
TypeOK ==
  /\ phase \in {"starting", "running", "ending"}
  /\ living \subseteq AllLogs
  /\ m_buffer \in [AllLogs -> Seq(1 .. MaxChars)]
  /\ \A l \in AllLogs \ living : m_buffer[l] = <<>>

(* Whoever walks the list of tags, at any time, meets each tag that exists *)
(* once, and a log that exists: the order in LOG_TAGGED_DEFINE sees to it. *)
TagsHaveLogs ==
  /\ IsInjective(ms_first)
  /\ ToSet(ms_first) = {l \in Defined : HasTag(l)}
  /\ ToSet(ms_first) \subseteq living

(* How often a character was printed or is going to be.                    *)
TimesIn(s, ch) == Cardinality({i \in DOMAIN s : s[i] = ch})
Times(ch) == TimesIn(output, ch) + Cardinality({l \in AllLogs : ch \in ToSet(m_buffer[l])})

(* Each character comes out once, unless a log was copied or assigned to   *)
(* while it had the character in its buffer (log.h:102): then it comes out *)
(* more often, or not at all.                                              *)
EachComesOut ==
  \A ch \in 1 .. chars :
    /\ ch \notin copied \union overwritten => Times(ch) = 1
    /\ ch \notin overwritten => Times(ch) >= 1
    /\ ch \notin copied => Times(ch) <= 1

LogsSound == TypeOK /\ TagsHaveLogs /\ EachComesOut
=============================================================================
