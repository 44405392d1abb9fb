----------------------------- MODULE Backtrace -----------------------------
(***************************************************************************)
(* GetBacktraceSymbols of src/system_linux.cpp, called by several threads  *)
(* of one process.  For each module that has one of the addresses, a call  *)
(* makes a pipe, forks, and reads what addr2line writes to the pipe, until *)
(* no process has the end for writing open any more.  A child inherits     *)
(* every end that its parent has open, also those of the other threads.    *)
(*                                                                         *)
(* A pair of lines of addr2line, a function and a location, is one symbol. *)
(* Reads and waits may fail, once the thread has a signal handler.         *)
(***************************************************************************)
EXTENDS Integers, FiniteSets, SequencesExt

CONSTANTS
  Threads,      (* each makes one call of GetBacktraceSymbols              *)
  Maps,         (* the lines of /proc/PID/maps: begin, end, name           *)
  Names,        (* the names of the modules, in their order                *)
  Skipped,      (* the names that are empty or begin with a bracket        *)
  Addresses,    (* the addresses of a backtrace                            *)
  Frames,       (* for each address, the symbols that addr2line -i has for *)
                (* it, innermost first: more than one if calls are inlined *)
  Unknown,      (* what addr2line prints for an address it cannot find     *)
  Garbage,      (* what follows text that is not terminated                *)
  None,
  PIPE_SIZE,    (* how many symbols fit into a pipe                        *)
  MaxFailures   (* bound: how many system calls fail                       *)

ASSUME SizesAssumption == Len(Names) \in Nat /\ PIPE_SIZE \in Nat

(* Two lines of the kernel are not for the same memory, and none is empty; *)
(* the names are the keys of a map; addr2line -i has a symbol at least for *)
(* each address, if only "??".                                             *)
Lines == {r \in ToSet(Maps) : r.name \notin Skipped}
ASSUME MapsAssumption ==
  /\ Maps \in Seq([begin : Int, end : Int, name : {r.name : r \in ToSet(Maps)}])
  /\ \A r \in Lines : r.begin < r.end
  /\ \A r, s \in Lines : r # s => r.end <= s.begin \/ s.end <= r.begin
ASSUME NamesAssumption == \A k, l \in 1 .. Len(Names) : Names[k] = Names[l] => k = l

Parent == <<"parent", 0>>
Jobs == Threads \X (1 .. Len(Names))
Index == 1 .. Len(Addresses)

SymbolsOf == UNION {ToSet(Frames[Addresses[i]]) : i \in Index}
ASSUME FramesAssumption ==
  /\ Addresses \in Seq(Int)
  /\ \A i \in Index : Frames[Addresses[i]] \in Seq(SymbolsOf) /\ Frames[Addresses[i]] # <<>>

VARIABLES
  pc, job,                (* where each thread is, and in which module     *)
  symbols, result,        (* what it has found, and returns                *)
  output,                 (* what ReadFD has read, by job                  *)
  readers, writers,       (* who has the ends of each pipe open            *)
  pipe, left,             (* what is in each pipe, what a child will write *)
  child, good,            (* the state of a child, and its exit status     *)
  readFailed, waitFailed  (* the jobs in which a call was interrupted      *)

callVars == <<pc, job, symbols, result>>
pipeVars == <<output, readers, writers, pipe>>
childVars == <<left, child, good>>
failVars == <<readFailed, waitFailed>>
vars == <<callVars, pipeVars, childVars, failVars>>

Init ==
  /\ pc = [t \in Threads |-> "idle"]
  /\ job = [t \in Threads |-> 1]
  /\ symbols = [t \in Threads |-> [i \in Index |-> None]]
  /\ result = [t \in Threads |-> None]
  /\ output = [j \in Jobs |-> <<>>]
  /\ readers = [j \in Jobs |-> {}]
  /\ writers = [j \in Jobs |-> {}]
  /\ pipe = [j \in Jobs |-> <<>>]
  /\ left = [j \in Jobs |-> <<>>]
  /\ child = [j \in Jobs |-> "none"]
  /\ good = [j \in Jobs |-> FALSE]
  /\ readFailed = {}
  /\ waitFailed = {}

CanFail == Cardinality(readFailed) + Cardinality(waitFailed) < MaxFailures

-----------------------------------------------------------------------------
(***************************************************************************)
(* The ranges of a module, sorted, adjacent ones merged, and the addresses *)
(* that are in them.                                                       *)
(***************************************************************************)
InOrder(S) == [k \in 1 .. Cardinality(S) |-> CHOOSE x \in S : Cardinality({y \in S : y <= x}) = k]

Sorted(ranges) ==
  LET begins == InOrder({r.begin : r \in ranges})
  IN  [k \in DOMAIN begins |-> CHOOSE r \in ranges : r.begin = begins[k]]

Merge(ranges, r) ==
  IF ranges # <<>> /\ Last(ranges).end = r.begin
    THEN [ranges EXCEPT ![Len(ranges)].end = r.end]
    ELSE Append(ranges, r)

ModuleRanges ==
  [name \in ToSet(Names) |->
     LET sorted == Sorted({r \in Lines : r.name = name})
         merged[n \in 0 .. Len(sorted)] == IF n = 0 THEN <<>> ELSE Merge(merged[n - 1], sorted[n])
     IN  merged[Len(sorted)]]

InRange(a, r) == a >= r.begin /\ a < r.end

Indexes ==
  [name \in ToSet(Names) |->
     InOrder({i \in Index : \E r \in ToSet(ModuleRanges[name]) : InRange(Addresses[i], r)})]

\* Mutant: addr2line gets the address where the module was loaded.
Absolute(name, i) == Addresses[i]

Offset(name, i) == Addresses[i] - Head(ModuleRanges[name]).begin

(* What addr2line prints for the offsets of a job.                         *)
LoadAddress(name) == Min({r.begin : r \in {m \in ToSet(Maps) : m.name = name}})

Addr2Line(name) ==
  LET offsets == [p \in DOMAIN Indexes[name] |-> Offset(name, Indexes[name][p])]
  IN  FlattenSeq([p \in DOMAIN offsets |-> Frames[LoadAddress(name) + offsets[p]]])

-----------------------------------------------------------------------------
(***************************************************************************)
(* The child: it has every end that its parent had, until it exits.        *)
(***************************************************************************)
ChildWrites(j) ==
  /\ child[j] = "running"
  /\ left[j] # <<>>
  /\ Len(pipe[j]) < PIPE_SIZE
  /\ pipe' = [pipe EXCEPT ![j] = Append(@, Head(left[j]))]
  /\ left' = [left EXCEPT ![j] = Tail(@)]
  /\ UNCHANGED <<callVars, output, readers, writers, child, good, failVars>>

ChildExits(j) ==
  /\ child[j] = "running"
  /\ left[j] = <<>>
  /\ child' = [child EXCEPT ![j] = "zombie"]
  /\ readers' = [k \in Jobs |-> readers[k] \ {j}]
  /\ writers' = [k \in Jobs |-> writers[k] \ {j}]
  /\ UNCHANGED <<callVars, output, pipe, left, good, failVars>>

-----------------------------------------------------------------------------
Call(t) ==
  /\ pc[t] = "idle"
  /\ pc' = [pc EXCEPT ![t] = "maps"]
  /\ UNCHANGED <<job, symbols, result, pipeVars, childVars, failVars>>

(* The file of the process is opened and read, or the call returns null.   *)
ReadMaps(t) ==
  /\ pc[t] = "maps"
  /\ \/ pc' = [pc EXCEPT ![t] = "module"]
     \/ pc' = [pc EXCEPT ![t] = "returned"]
  /\ UNCHANGED <<job, symbols, result, pipeVars, childVars, failVars>>

(* GetBacktraceSymbolsForModule for the next module, if it has addresses.  *)
NextModule(t) ==
  /\ pc[t] = "module"
  /\ job[t] <= Len(Names)
  /\ IF Indexes[Names[job[t]]] = <<>>
       THEN job' = [job EXCEPT ![t] = @ + 1] /\ UNCHANGED pc
       ELSE pc' = [pc EXCEPT ![t] = "pipe"] /\ UNCHANGED job
  /\ UNCHANGED <<symbols, result, pipeVars, childVars, failVars>>

(* The addresses themselves stand for the symbols that are missing.        *)
Return(t) ==
  /\ pc[t] = "module"
  /\ job[t] > Len(Names)
  /\ result' = [result EXCEPT ![t] =
       [i \in Index |-> IF symbols[t][i] = None THEN Addresses[i] ELSE symbols[t][i]]]
  /\ pc' = [pc EXCEPT ![t] = "returned"]
  /\ UNCHANGED <<job, symbols, pipeVars, childVars, failVars>>

MakePipe(t, j) ==
  /\ pc[t] = "pipe"
  /\ \/ /\ readers' = [readers EXCEPT ![j] = {Parent}]
        /\ writers' = [writers EXCEPT ![j] = {Parent}]
        /\ pc' = [pc EXCEPT ![t] = "fork"]
     \/ pc' = [pc EXCEPT ![t] = "done"] /\ UNCHANGED <<readers, writers>>
  /\ UNCHANGED <<job, symbols, result, output, pipe, childVars, failVars>>

Inherited(ends, j) == [k \in Jobs |-> IF Parent \in ends[k] THEN ends[k] \union {j} ELSE ends[k]]

(* The child runs addr2line, or cannot and exits with 127.                 *)
Fork(t, j) ==
  /\ pc[t] = "fork"
  /\ \/ /\ \E ok \in BOOLEAN :
             /\ left' = [left EXCEPT ![j] = IF ok THEN Addr2Line(Names[j[2]]) ELSE <<>>]
             /\ good' = [good EXCEPT ![j] = ok]
        /\ child' = [child EXCEPT ![j] = "running"]
        /\ readers' = Inherited(readers, j)
        /\ writers' = Inherited(writers, j)
        /\ pc' = [pc EXCEPT ![t] = "close"]
     \/ pc' = [pc EXCEPT ![t] = "done"] /\ UNCHANGED <<readers, writers, childVars>>
  /\ UNCHANGED <<job, symbols, result, output, pipe, failVars>>

\* Mutant: the parent keeps its end for writing while it reads.
KeepWriter(t, j) ==
  /\ pc[t] = "close"
  /\ pc' = [pc EXCEPT ![t] = "read"]
  /\ UNCHANGED <<job, symbols, result, pipeVars, childVars, failVars>>

CloseWriter(t, j) ==
  /\ pc[t] = "close"
  /\ writers' = [writers EXCEPT ![j] = @ \ {Parent}]
  /\ pc' = [pc EXCEPT ![t] = "read"]
  /\ UNCHANGED <<job, symbols, result, output, readers, pipe, childVars, failVars>>

(***************************************************************************)
(* ReadFD takes what is there, ends when nobody can write any more, and    *)
(* fails when a signal interrupts it; its result is not looked at.         *)
(***************************************************************************)
Read(t, j) ==
  /\ pc[t] = "read"
  /\ pipe[j] # <<>>
  /\ output' = [output EXCEPT ![j] = @ \o pipe[j]]
  /\ pipe' = [pipe EXCEPT ![j] = <<>>]
  /\ UNCHANGED <<callVars, readers, writers, childVars, failVars>>

ReadEnds(t, j) ==
  /\ pc[t] = "read"
  /\ pipe[j] = <<>>
  /\ \/ writers[j] = {} /\ UNCHANGED readFailed
     \/ writers[j] # {} /\ CanFail /\ readFailed' = readFailed \union {j}
  /\ pc' = [pc EXCEPT ![t] = "wait"]
  /\ UNCHANGED <<job, symbols, result, pipeVars, childVars, waitFailed>>

WaitPid(t, j) ==
  /\ pc[t] = "wait"
  /\ \/ /\ child[j] = "zombie"
        /\ child' = [child EXCEPT ![j] = "reaped"]
        /\ pc' = [pc EXCEPT ![t] = IF good[j] THEN "parse" ELSE "done"]
        /\ UNCHANGED waitFailed
     \/ /\ child[j] = "running"
        /\ CanFail
        /\ waitFailed' = waitFailed \union {j}
        /\ pc' = [pc EXCEPT ![t] = "done"]
        /\ UNCHANGED child
  /\ UNCHANGED <<job, symbols, result, pipeVars, left, good, readFailed>>

(***************************************************************************)
(* The symbols are given to the addresses in turn.  When the read failed,  *)
(* nothing ends the text that was read.                                    *)
(***************************************************************************)
Parse(t, j) ==
  LET indexes == Indexes[Names[j[2]]]
      IsGiven(i, text) == \E p \in DOMAIN text : p <= Len(indexes) /\ indexes[p] = i /\ text[p] # Unknown
      Given(i, text) == text[CHOOSE p \in DOMAIN text : p <= Len(indexes) /\ indexes[p] = i]
  IN  /\ pc[t] = "parse"
      /\ \E text \in {output[j]} \union
             (IF j \in readFailed /\ output[j] # <<>> THEN {Append(output[j], Garbage)} ELSE {}) :
           symbols' = [symbols EXCEPT ![t] =
             [i \in Index |-> IF @[i] = None /\ IsGiven(i, text) THEN Given(i, text) ELSE @[i]]]
      /\ pc' = [pc EXCEPT ![t] = "done"]
      /\ UNCHANGED <<job, result, pipeVars, childVars, failVars>>

\* Mutant: only the end for reading is closed, the other one was already.
CloseReaderOnly(t, j) ==
  /\ pc[t] = "done"
  /\ readers' = [readers EXCEPT ![j] = @ \ {Parent}]
  /\ job' = [job EXCEPT ![t] = @ + 1]
  /\ pc' = [pc EXCEPT ![t] = "module"]
  /\ UNCHANGED <<symbols, result, output, writers, pipe, childVars, failVars>>

(* The label done closes the ends that the parent still has open.          *)
Done(t, j) ==
  /\ pc[t] = "done"
  /\ readers' = [readers EXCEPT ![j] = @ \ {Parent}]
  /\ writers' = [writers EXCEPT ![j] = @ \ {Parent}]
  /\ job' = [job EXCEPT ![t] = @ + 1]
  /\ pc' = [pc EXCEPT ![t] = "module"]
  /\ UNCHANGED <<symbols, result, output, pipe, childVars, failVars>>

InModule(t) ==
  LET j == <<t, job[t]>>
  IN  \/ MakePipe(t, j) \/ Fork(t, j) \/ CloseWriter(t, j) \/ Read(t, j)
      \/ ReadEnds(t, j) \/ WaitPid(t, j) \/ Parse(t, j) \/ Done(t, j)

GetBacktraceSymbols(t) == ReadMaps(t) \/ NextModule(t) \/ Return(t) \/ InModule(t)

Child(j) == ChildWrites(j) \/ ChildExits(j)

Next ==
  \/ \E t \in Threads : Call(t) \/ GetBacktraceSymbols(t)
  \/ \E j \in Jobs : Child(j)

(* Every thread of the process and every child is scheduled again and      *)
(* again; nothing makes a thread begin a call, or a system call fail.      *)
Fairness ==
  /\ \A t \in Threads : WF_vars(GetBacktraceSymbols(t))
  /\ \A j \in Jobs : WF_vars(Child(j))

Spec == Init /\ [][Next]_vars /\ Fairness

-----------------------------------------------------------------------------
TypeOK ==
  /\ pc \in [Threads -> {"idle", "maps", "module", "pipe", "fork", "close", "read", "wait",
                         "parse", "done", "returned"}]
  /\ job \in [Threads -> 1 .. Len(Names) + 1]
  /\ readers \in [Jobs -> SUBSET (Jobs \union {Parent})]
  /\ writers \in [Jobs -> SUBSET (Jobs \union {Parent})]
  /\ \A j \in Jobs : Len(pipe[j]) <= PIPE_SIZE
  /\ child \in [Jobs -> {"none", "running", "zombie", "reaped"}]
  /\ good \in [Jobs -> BOOLEAN]
  /\ readFailed \subseteq Jobs
  /\ waitFailed \subseteq Jobs

(* A read that failed leaves more than the pipe holds: the child waits for *)
(* room, and the parent for the child.                                     *)
Stuck(j) == j \in readFailed /\ Len(pipe[j]) + Len(left[j]) > PIPE_SIZE

(* Every call returns, however the children of several threads inherit the *)
(* ends of each other's pipes, unless a read failed (its result is ignored *)
(* at system_linux.cpp:153) with more to come than the pipe holds.         *)
CallsReturn ==
  \A t \in Threads : pc[t] = "maps" ~> (pc[t] = "returned" \/ \E j \in Jobs : Stuck(j))

(* Between modules and after the call the parent has no end of its pipes   *)
(* open, and has reaped its children, whichever system call failed, unless *)
(* that was waitpid (system_linux.cpp:159): then the child stays.          *)
EverythingGivenBack ==
  /\ TypeOK
  /\ \A t \in Threads, k \in 1 .. Len(Names) :
       LET j == <<t, k>>
       IN  k < job[t] => /\ Parent \notin readers[j] \union writers[j]
                         /\ child[j] \in {"none", "reaped"} \/ j \in waitFailed

(* The symbol that is shown for an address is its own, its innermost frame *)
(* if calls are inlined, as far as the addresses before it in its module   *)
(* have no inlined calls: after one that has, the pairs of lines that -i   *)
(* adds are taken for those of the next addresses.                         *)
OwnSymbols ==
  \A t \in Threads, j \in Jobs :
    LET indexes == Indexes[Names[j[2]]]
    IN  j[1] = t /\ j \notin readFailed =>
          \A p \in DOMAIN indexes :
            (\A q \in 1 .. p - 1 : Len(Frames[Addresses[indexes[q]]]) = 1) =>
              symbols[t][indexes[p]] \in {None, Head(Frames[Addresses[indexes[p]]])}
=============================================================================
