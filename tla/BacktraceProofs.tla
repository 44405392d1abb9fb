--------------------------- MODULE BacktraceProofs ---------------------------
(***************************************************************************)
(* Theorems of Backtrace, for any threads, any map of the process whose    *)
(* lines are disjoint, any addresses, any symbols of theirs, any size of a *)
(* pipe and any number of failures.                                        *)
(***************************************************************************)
EXTENDS Backtrace, DataLemmas, FiniteSetTheorems, TLAPS

(***************************************************************************)
(* Where the thread of a job is with it: a job that it has not come to has *)
(* no pipe and no child, one it has left has given both back.              *)
(***************************************************************************)
Ends(j) == readers[j] \union writers[j]
Fresh(j) == Parent \notin Ends(j) /\ child[j] = "none"
Reaped(j) == child[j] \in {"none", "reaped"} \/ j \in waitFailed

HasPipe == {"fork", "close", "read", "wait", "parse", "done"}
HasJob == HasPipe \union {"pipe"}

JobOK(t, k) ==
  /\ k < job[t] => Parent \notin Ends(<<t, k>>) /\ Reaped(<<t, k>>)
  /\ k > job[t] => Fresh(<<t, k>>)
  /\ k = job[t] => /\ pc[t] \notin HasPipe => Fresh(<<t, k>>)
                   /\ pc[t] = "fork" => child[<<t, k>>] = "none"
                   /\ pc[t] \in {"close", "read", "wait"} => child[<<t, k>>] \in {"running", "zombie"}
                   /\ pc[t] \in {"parse", "done"} => Reaped(<<t, k>>)

JobInv ==
  \A t \in Threads : /\ pc[t] \in HasJob => job[t] \in 1 .. Len(Names)
                     /\ \A k \in 1 .. Len(Names) : JobOK(t, k)

(***************************************************************************)
(* A pipe holds a sequence; what of, is up to addr2line.                   *)
(***************************************************************************)
PipeInv ==
  /\ pipe = [j \in Jobs |-> pipe[j]]
  /\ \A j \in Jobs : \E S : pipe[j] \in Seq(S)

Inv == TypeOK /\ JobInv /\ PipeInv

-----------------------------------------------------------------------------
LEMMA ParentIsNoChild == \A j \in Jobs : j # Parent
<1>1. ASSUME NEW t \in Threads, NEW k \in 1 .. Len(Names) PROVE <<t, k>> # Parent
  <2>1. k # 0
    BY SizesAssumption
  <2>2. QED
    BY <2>1 DEF Parent
<1>2. QED
  BY <1>1 DEF Jobs

LEMMA JobsArePairs == \A t \in Threads, k \in 1 .. Len(Names) : <<t, k>> \in Jobs
BY DEF Jobs

LEMMA SamePair == \A t, u, k, l : <<t, k>> = <<u, l>> => t = u /\ k = l
OBVIOUS

-----------------------------------------------------------------------------
(***************************************************************************)
(* Every step of a call keeps the types, and what is in the pipes.         *)
(***************************************************************************)
LEMMA ChildWritesPipe ==
  ASSUME TypeOK, PipeInv, NEW j \in Jobs, ChildWrites(j)
  PROVE  PipeInv' /\ \A i \in Jobs : Len(pipe'[i]) <= PIPE_SIZE
<1>1. PICK S : pipe[j] \in Seq(S)
  BY DEF PipeInv
<1>2. PICK e : pipe' = [pipe EXCEPT ![j] = Append(@, e)] /\ Len(pipe[j]) < PIPE_SIZE
  BY DEF ChildWrites
<1>3. pipe[j] \in Seq(S \union {e}) /\ Len(pipe[j]) \in Nat
  BY <1>1
<1>4. Append(pipe[j], e) \in Seq(S \union {e}) /\ Len(Append(pipe[j], e)) = Len(pipe[j]) + 1
  BY <1>3
<1>5. /\ pipe' = [i \in Jobs |-> pipe'[i]]
      /\ pipe'[j] = Append(pipe[j], e)
      /\ \A i \in Jobs : i # j => pipe'[i] = pipe[i]
  BY <1>2 DEF PipeInv
<1>6. ASSUME NEW i \in Jobs PROVE (\E T : pipe'[i] \in Seq(T)) /\ Len(pipe'[i]) <= PIPE_SIZE
  <2>1. CASE i = j
    <3>1. Len(pipe'[i]) <= PIPE_SIZE
      BY <1>2, <1>3, <1>4, <1>5, <2>1, SizesAssumption
    <3>2. pipe'[i] \in Seq(S \union {e})
      BY <1>4, <1>5, <2>1
    <3>3. QED
      BY <3>1, <3>2
  <2>2. CASE i # j
    BY <1>5, <2>2 DEF PipeInv, TypeOK
  <2>3. QED
    BY <2>1, <2>2
<1>7. QED
  BY <1>5, <1>6 DEF PipeInv

LEMMA ReadPipe ==
  ASSUME TypeOK, PipeInv, NEW t \in Threads, NEW j \in Jobs, Read(t, j)
  PROVE  PipeInv' /\ \A i \in Jobs : Len(pipe'[i]) <= PIPE_SIZE
<1>1. pipe' = [pipe EXCEPT ![j] = <<>>]
  BY DEF Read
<1>2. /\ pipe' = [i \in Jobs |-> pipe'[i]]
      /\ pipe'[j] = <<>>
      /\ \A i \in Jobs : i # j => pipe'[i] = pipe[i]
  BY <1>1 DEF PipeInv
<1>3. <<>> \in Seq({}) /\ Len(<<>>) = 0 /\ 0 <= PIPE_SIZE
  BY SizesAssumption
<1>4. ASSUME NEW i \in Jobs PROVE (\E T : pipe'[i] \in Seq(T)) /\ Len(pipe'[i]) <= PIPE_SIZE
  BY <1>2, <1>3 DEF PipeInv, TypeOK
<1>5. QED
  BY <1>2, <1>4 DEF PipeInv

LEMMA PipeNext ==
  ASSUME Inv, [Next]_vars
  PROVE  PipeInv' /\ \A j \in Jobs : Len(pipe'[j]) <= PIPE_SIZE
<1>1. CASE UNCHANGED pipe
  BY <1>1 DEF Inv, PipeInv, TypeOK
<1>2. ASSUME NEW t \in Threads, Read(t, <<t, job[t]>>) PROVE <<t, job[t]>> \in Jobs
  BY <1>2 DEF Read, Inv, JobInv, HasJob, HasPipe, Jobs
<1>3. ASSUME NEW t \in Threads, InModule(t), ~Read(t, <<t, job[t]>>) PROVE UNCHANGED pipe
  BY <1>3 DEF InModule, MakePipe, Fork, CloseWriter, ReadEnds, WaitPid, Parse, Done, pipeVars
<1>4. ASSUME NEW t \in Threads, Call(t) \/ ReadMaps(t) \/ NextModule(t) \/ Return(t) PROVE UNCHANGED pipe
  BY <1>4 DEF Call, ReadMaps, NextModule, Return, pipeVars
<1>5. ASSUME NEW j \in Jobs, ChildExits(j) PROVE UNCHANGED pipe
  BY <1>5 DEF ChildExits
<1>6. ASSUME UNCHANGED vars PROVE UNCHANGED pipe
  BY <1>6 DEF vars, pipeVars
<1>7. QED
  BY <1>1, <1>2, <1>3, <1>4, <1>5, <1>6, ReadPipe, ChildWritesPipe
     DEF Inv, Next, GetBacktraceSymbols, Child, InModule

(***************************************************************************)
(* What the other variables have their types in.                           *)
(***************************************************************************)
CallType ==
  /\ pc \in [Threads -> {"idle", "maps", "module", "pipe", "fork", "close", "read", "wait",
                         "parse", "done", "returned"}]
  /\ job \in [Threads -> 1 .. Len(Names) + 1]

ChildType ==
  /\ readers \in [Jobs -> SUBSET (Jobs \union {Parent})]
  /\ writers \in [Jobs -> SUBSET (Jobs \union {Parent})]
  /\ child \in [Jobs -> {"none", "running", "zombie", "reaped"}]
  /\ good \in [Jobs -> BOOLEAN]
  /\ readFailed \subseteq Jobs
  /\ waitFailed \subseteq Jobs

LEMMA TypeParts == TypeOK <=> CallType /\ ChildType /\ \A j \in Jobs : Len(pipe[j]) <= PIPE_SIZE
BY DEF TypeOK, CallType, ChildType

LEMMA InModuleTypes ==
  ASSUME CallType, ChildType, NEW t \in Threads, job[t] \in 1 .. Len(Names), InModule(t)
  PROVE  CallType' /\ ChildType'
<1> DEFINE j == <<t, job[t]>>
<1>1. j \in Jobs
  BY DEF Jobs
<1>2. job[t] + 1 \in 1 .. Len(Names) + 1
  BY SizesAssumption
<1> HIDE DEF j
<1>3. CASE MakePipe(t, j)
  BY <1>1, <1>3 DEF MakePipe, CallType, ChildType, childVars, failVars
<1>4. CASE Fork(t, j)
  <2>1. CallType'
    BY <1>4 DEF Fork, CallType
  <2>2. CASE UNCHANGED <<readers, writers, childVars>>
    BY <1>4, <2>1, <2>2 DEF Fork, ChildType, childVars, failVars
  <2>3. CASE \E ok \in BOOLEAN : /\ good' = [good EXCEPT ![j] = ok]
                                 /\ child' = [child EXCEPT ![j] = "running"]
                                 /\ readers' = Inherited(readers, j)
                                 /\ writers' = Inherited(writers, j)
    BY <1>1, <1>4, <2>1, <2>3 DEF Fork, ChildType, Inherited, failVars
  <2>4. QED
    BY <1>4, <2>2, <2>3 DEF Fork
<1>5. CASE CloseWriter(t, j)
  BY <1>1, <1>5 DEF CloseWriter, CallType, ChildType, childVars, failVars
<1>6. CASE Read(t, j)
  BY <1>6 DEF Read, CallType, ChildType, callVars, childVars, failVars
<1>7. CASE ReadEnds(t, j)
  BY <1>1, <1>7 DEF ReadEnds, CallType, ChildType, pipeVars, childVars
<1>8. CASE WaitPid(t, j)
  <2>1. CallType'
    BY <1>8 DEF WaitPid, CallType
  <2>2. ChildType'
    BY <1>1, <1>8 DEF WaitPid, ChildType, pipeVars
  <2>3. QED
    BY <2>1, <2>2
<1>9. CASE Parse(t, j)
  BY <1>9 DEF Parse, CallType, ChildType, pipeVars, childVars, failVars
<1>10. CASE Done(t, j)
  BY <1>1, <1>2, <1>10 DEF Done, CallType, ChildType, childVars, failVars
<1>11. QED
  BY <1>3, <1>4, <1>5, <1>6, <1>7, <1>8, <1>9, <1>10 DEF InModule, j

LEMMA TypeNext ==
  ASSUME Inv, [Next]_vars
  PROVE  TypeOK'
<1>1. CallType /\ ChildType
  BY TypeParts DEF Inv
<1>2. ASSUME NEW t \in Threads, InModule(t) PROVE CallType' /\ ChildType'
  <2>1. pc[t] \in HasJob
    BY <1>2 DEF InModule, MakePipe, Fork, CloseWriter, Read, ReadEnds, WaitPid, Parse, Done, HasJob, HasPipe
  <2>2. QED
    BY <1>1, <1>2, <2>1, InModuleTypes DEF Inv, JobInv
<1>3. ASSUME NEW t \in Threads, Call(t) \/ ReadMaps(t) \/ NextModule(t) \/ Return(t)
      PROVE  CallType' /\ ChildType'
  <2>1. ChildType'
    BY <1>1, <1>3 DEF Call, ReadMaps, NextModule, Return, ChildType, pipeVars, childVars, failVars
  <2>2. CASE Call(t) \/ ReadMaps(t) \/ Return(t)
    BY <1>1, <2>1, <2>2 DEF Call, ReadMaps, Return, CallType
  <2>3. CASE NextModule(t)
    <3>1. job[t] + 1 \in 1 .. Len(Names) + 1
      BY <1>1, <2>3, SizesAssumption DEF NextModule, CallType
    <3>2. QED
      BY <1>1, <2>1, <2>3, <3>1 DEF NextModule, CallType
  <2>4. QED
    BY <1>3, <2>2, <2>3
<1>4. ASSUME NEW j \in Jobs, Child(j) PROVE CallType' /\ ChildType'
  BY <1>1, <1>4 DEF Child, ChildWrites, ChildExits, CallType, ChildType, callVars, failVars
<1>5. ASSUME UNCHANGED vars PROVE CallType' /\ ChildType'
  BY <1>1, <1>5 DEF vars, callVars, pipeVars, childVars, failVars, CallType, ChildType
<1>6. CallType' /\ ChildType'
  BY <1>2, <1>3, <1>4, <1>5 DEF Next, GetBacktraceSymbols
<1>7. QED
  BY <1>6, PipeNext DEF TypeOK, CallType, ChildType

-----------------------------------------------------------------------------
(***************************************************************************)
(* A thread leaves the jobs that it is not in alone: what a fork inherits  *)
(* is the child's, not the parent's.                                       *)
(***************************************************************************)
Keeps(i) ==
  /\ child'[i] = child[i]
  /\ Parent \in Ends(i)' <=> Parent \in Ends(i)
  /\ i \in waitFailed => i \in waitFailed'

LEMMA ForkEnds ==
  ASSUME ChildType, NEW t, NEW j \in Jobs, Fork(t, j), NEW i \in Jobs
  PROVE  Parent \in Ends(i)' <=> Parent \in Ends(i)
<1>1. ASSUME UNCHANGED <<readers, writers>> PROVE Ends(i)' = Ends(i)
  BY <1>1 DEF Ends
<1>2. ASSUME readers' = Inherited(readers, j), writers' = Inherited(writers, j)
      PROVE  Parent \in Ends(i)' <=> Parent \in Ends(i)
  <2>1. j # Parent
    BY ParentIsNoChild
  <2>2. /\ Parent \in readers'[i] <=> Parent \in readers[i]
        /\ Parent \in writers'[i] <=> Parent \in writers[i]
    BY <1>2, <2>1 DEF Inherited
  <2>3. QED
    BY <2>2 DEF Ends
<1>3. QED
  BY <1>1, <1>2 DEF Fork

LEMMA OtherJobsStay ==
  ASSUME ChildType, NEW t \in Threads, NEW j \in Jobs, NEW i \in Jobs, i # j,
         \/ MakePipe(t, j) \/ Fork(t, j) \/ CloseWriter(t, j) \/ Read(t, j)
         \/ ReadEnds(t, j) \/ WaitPid(t, j) \/ Parse(t, j) \/ Done(t, j)
  PROVE  Keeps(i)
<1> USE DEF Keeps
<1>1. CASE MakePipe(t, j)
  BY <1>1 DEF MakePipe, ChildType, Ends, childVars, failVars
<1>2. CASE Fork(t, j)
  <2>1. child'[i] = child[i] /\ UNCHANGED waitFailed
    BY <1>2 DEF Fork, ChildType, childVars, failVars
  <2>2. QED
    BY <1>2, <2>1, ForkEnds
<1>3. CASE CloseWriter(t, j)
  BY <1>3 DEF CloseWriter, ChildType, Ends, childVars, failVars
<1>4. CASE Read(t, j)
  BY <1>4 DEF Read, Ends, childVars, failVars
<1>5. CASE ReadEnds(t, j)
  BY <1>5 DEF ReadEnds, Ends, pipeVars, childVars
<1>6. CASE WaitPid(t, j)
  <2>1. child'[i] = child[i] /\ (i \in waitFailed => i \in waitFailed')
    BY <1>6 DEF WaitPid, ChildType
  <2>2. UNCHANGED <<readers, writers>>
    BY <1>6, SMTT(30) DEF WaitPid, pipeVars
  <2>3. QED
    BY <2>1, <2>2 DEF Ends
<1>7. CASE Parse(t, j)
  BY <1>7 DEF Parse, Ends, pipeVars, childVars, failVars
<1>8. CASE Done(t, j)
  BY <1>8 DEF Done, ChildType, Ends, childVars, failVars
<1>9. QED
  BY <1>1, <1>2, <1>3, <1>4, <1>5, <1>6, <1>7, <1>8

(***************************************************************************)
(* What a step in a job does with it.                                      *)
(***************************************************************************)
LEMMA OwnJob ==
  ASSUME CallType, ChildType, NEW t \in Threads, NEW k \in 1 .. Len(Names), job[t] = k, JobOK(t, k), InModule(t)
  PROVE  /\ JobOK(t, k)'
         /\ \/ job'[t] = k
            \/ job'[t] = k + 1 /\ pc'[t] = "module"
<1> DEFINE j == <<t, k>>
<1>0. j \in Jobs /\ k \in Nat /\ k < k + 1 /\ ~(k < k) /\ k # k + 1
  BY SizesAssumption DEF Jobs
<1> HIDE DEF j
<1>1. CASE MakePipe(t, j)
  <2>1. job'[t] = k /\ pc[t] = "pipe" /\ pc'[t] \in {"fork", "done"} /\ child'[j] = child[j]
    BY <1>0, <1>1 DEF MakePipe, CallType, childVars
  <2>2. child[j] = "none"
    BY <1>0, <2>1 DEF JobOK, Fresh, HasPipe, j
  <2>3. QED
    BY <1>0, <2>1, <2>2 DEF JobOK, HasPipe, Reaped, j
<1>2. CASE Fork(t, j)
  <2>1. /\ job'[t] = k /\ pc[t] = "fork"
        /\ \/ pc'[t] = "close" /\ child'[j] = "running"
           \/ pc'[t] = "done" /\ child'[j] = child[j]
    BY <1>0, <1>2 DEF Fork, CallType, ChildType, childVars
  <2>2. child[j] = "none"
    BY <1>0, <2>1 DEF JobOK, j
  <2>3. QED
    BY <1>0, <2>1, <2>2 DEF JobOK, HasPipe, Reaped, j
<1>3. CASE CloseWriter(t, j) \/ Read(t, j) \/ ReadEnds(t, j)
  <2>1. /\ job'[t] = k /\ pc[t] \in {"close", "read"} /\ pc'[t] \in {"read", "wait"}
        /\ child'[j] = child[j]
    BY <1>0, <1>3 DEF CloseWriter, Read, ReadEnds, CallType, childVars, callVars
  <2>2. child[j] \in {"running", "zombie"}
    BY <1>0, <2>1 DEF JobOK, j
  <2>3. QED
    BY <1>0, <2>1, <2>2 DEF JobOK, HasPipe, j
<1>4. CASE WaitPid(t, j)
  <2>1. job'[t] = k /\ pc'[t] \in {"parse", "done"}
    BY <1>0, <1>4 DEF WaitPid, CallType
  <2>2. child'[j] = "reaped" \/ j \in waitFailed'
    BY <1>0, <1>4 DEF WaitPid, ChildType
  <2>3. QED
    BY <1>0, <2>1, <2>2 DEF JobOK, HasPipe, Reaped, j
<1>5. CASE Parse(t, j)
  <2>1. job'[t] = k /\ pc[t] = "parse" /\ pc'[t] = "done" /\ UNCHANGED <<child, waitFailed>>
    BY <1>0, <1>5 DEF Parse, CallType, childVars, failVars
  <2>2. QED
    BY <1>0, <2>1 DEF JobOK, HasPipe, Reaped, j
<1>6. CASE Done(t, j)
  <2>1. job'[t] = k + 1 /\ pc[t] = "done" /\ pc'[t] = "module" /\ UNCHANGED <<child, waitFailed>>
    BY <1>0, <1>6 DEF Done, CallType, childVars, failVars
  <2>2. Parent \notin readers'[j] /\ Parent \notin writers'[j]
    BY <1>0, <1>6 DEF Done, ChildType
  <2>3. Reaped(j)'
    BY <1>0, <2>1 DEF JobOK, Reaped, j
  <2>4. Parent \notin Ends(j)'
    BY <2>2 DEF Ends
  <2>5. QED
    BY <1>0, <2>1, <2>3, <2>4 DEF JobOK, j
<1>7. QED
  BY <1>1, <1>2, <1>3, <1>4, <1>5, <1>6 DEF InModule, j

LEMMA InModuleJobs ==
  ASSUME CallType, ChildType, JobInv, NEW t \in Threads, job[t] \in 1 .. Len(Names), InModule(t)
  PROVE  JobInv'
<1>0. PICK n \in 1 .. Len(Names) : n = job[t]
  OBVIOUS
<1>1. <<t, n>> \in Jobs
  BY JobsArePairs
<1>2. ASSUME NEW i \in Jobs, i # <<t, n>> PROVE Keeps(i)
  BY <1>0, <1>1, <1>2, OtherJobsStay DEF InModule
<1>3. /\ JobOK(t, n)'
      /\ \/ job'[t] = n
         \/ job'[t] = n + 1 /\ pc'[t] = "module"
  BY <1>0, OwnJob DEF JobInv
<1>4. \A u \in Threads \ {t} : pc'[u] = pc[u] /\ job'[u] = job[u]
  BY DEF InModule, MakePipe, Fork, CloseWriter, Read, ReadEnds, WaitPid, Parse, Done, CallType, callVars
<1>5. ASSUME NEW k \in 1 .. Len(Names), k # n PROVE JobOK(t, k)'
  <2>1. Keeps(<<t, k>>)
    BY <1>2, <1>5, JobsArePairs, SamePair
  <2>2. JobOK(t, k) /\ k \in Nat /\ job[t] \in Nat /\ job[t] = n
    BY <1>0, SizesAssumption DEF JobInv
  <2>3. k < job'[t] => k < job[t]
    BY <1>3, <1>5, <2>2
  <2>4. k >= job'[t] => k > job[t]
    BY <1>3, <1>5, <2>2
  <2>5. k = job'[t] => pc'[t] = "module"
    BY <1>3, <1>5
  <2>6. k > job[t] => Fresh(<<t, k>>)'
    BY <2>1, <2>2 DEF JobOK, Keeps, Fresh
  <2>7. k < job[t] => (Parent \notin Ends(<<t, k>>) /\ Reaped(<<t, k>>))'
    BY <2>1, <2>2 DEF JobOK, Keeps, Reaped
  <2>8. k \in Nat /\ job'[t] \in Nat
    BY <1>3, <2>2
  <2>9. QED
    BY <2>3, <2>4, <2>5, <2>6, <2>7, <2>8 DEF JobOK, HasPipe
<1>6. ASSUME NEW u \in Threads \ {t}, NEW k \in 1 .. Len(Names) PROVE JobOK(u, k)'
  <2>1. Keeps(<<u, k>>)
    BY <1>2, JobsArePairs, SamePair
  <2>2. JobOK(u, k)
    BY DEF JobInv
  <2>3. QED
    BY <1>4, <2>1, <2>2 DEF JobOK, Keeps, Fresh, Reaped
<1>7. pc'[t] \in HasJob => job'[t] \in 1 .. Len(Names)
  BY <1>0, <1>3 DEF HasJob, HasPipe
<1>8. ASSUME NEW u \in Threads
      PROVE  /\ pc'[u] \in HasJob => job'[u] \in 1 .. Len(Names)
             /\ \A k \in 1 .. Len(Names) : JobOK(u, k)'
  BY <1>3, <1>4, <1>5, <1>6, <1>7 DEF JobInv
<1>9. QED
  BY <1>8 DEF JobInv

LEMMA ChildJobs ==
  ASSUME CallType, ChildType, JobInv, NEW j \in Jobs, Child(j)
  PROVE  JobInv'
<1>1. UNCHANGED <<pc, job, waitFailed>> /\ child[j] = "running"
  BY DEF Child, ChildWrites, ChildExits, callVars, failVars
<1>2. ASSUME NEW i \in Jobs
      PROVE  /\ Parent \in Ends(i)' <=> Parent \in Ends(i)
             /\ child'[i] = child[i] \/ (child[i] = "running" /\ child'[i] = "zombie")
  <2>1. CASE ChildWrites(j)
    BY <2>1 DEF ChildWrites, Ends
  <2>2. CASE ChildExits(j)
    <3>1. j # Parent
      BY ParentIsNoChild
    <3>2. (Parent \in readers'[i] <=> Parent \in readers[i]) /\ (Parent \in writers'[i] <=> Parent \in writers[i])
      BY <2>2, <3>1 DEF ChildExits
    <3>3. child'[i] = child[i] \/ (child[i] = "running" /\ child'[i] = "zombie")
      BY <2>2 DEF ChildExits, ChildType
    <3>4. QED
      BY <3>2, <3>3 DEF Ends
  <2>3. QED
    BY <2>1, <2>2 DEF Child
<1>3. ASSUME NEW t \in Threads, NEW k \in 1 .. Len(Names) PROVE JobOK(t, k)'
  <2>1. <<t, k>> \in Jobs /\ JobOK(t, k)
    BY JobsArePairs DEF JobInv
  <2>2. QED
    BY <1>1, <1>2, <2>1 DEF JobOK, Fresh, Reaped
<1>4. QED
  BY <1>1, <1>3 DEF JobInv

LEMMA BetweenJobs ==
  ASSUME CallType, ChildType, JobInv, NEW t \in Threads, Call(t) \/ ReadMaps(t) \/ NextModule(t) \/ Return(t)
  PROVE  JobInv'
<1>1. UNCHANGED <<readers, writers, child, waitFailed>>
  BY DEF Call, ReadMaps, NextModule, Return, pipeVars, childVars, failVars
<1>2. \A u \in Threads \ {t} : pc'[u] = pc[u] /\ job'[u] = job[u]
  BY DEF Call, ReadMaps, NextModule, Return, CallType
<1>3. /\ pc[t] \notin HasPipe /\ pc'[t] \notin HasPipe
      /\ job'[t] \in {job[t], job[t] + 1}
      /\ pc'[t] = "pipe" => job'[t] = job[t] /\ job[t] <= Len(Names)
  BY DEF Call, ReadMaps, NextModule, Return, CallType, HasPipe
<1>4. \A i : Ends(i)' = Ends(i) /\ (Fresh(i)' <=> Fresh(i)) /\ (Reaped(i)' <=> Reaped(i)) /\ (Fresh(i) => Reaped(i))
  BY <1>1 DEF Ends, Fresh, Reaped
<1>5. job[t] \in 1 .. Len(Names) + 1 /\ job[t] \in Nat
  BY SizesAssumption DEF CallType
<1>6. ASSUME NEW k \in 1 .. Len(Names) PROVE JobOK(t, k)'
  <2>1. JobOK(t, k) /\ k \in Nat
    BY SizesAssumption DEF JobInv
  <2>2. k >= job[t] => Fresh(<<t, k>>)
    BY <1>3, <1>5, <2>1 DEF JobOK
  <2>3. k < job[t] => Parent \notin Ends(<<t, k>>) /\ Reaped(<<t, k>>)
    BY <2>1 DEF JobOK
  <2>4. Parent \notin Ends(<<t, k>>) /\ Reaped(<<t, k>>)
    BY <1>4, <1>5, <2>1, <2>2, <2>3 DEF Fresh
  <2>5. k >= job'[t] => k >= job[t]
    BY <1>3, <1>5, <2>1
  <2>6. job'[t] \in Nat
    BY <1>3, <1>5
  <2>7. QED
    BY <1>3, <1>4, <2>1, <2>2, <2>4, <2>5, <2>6 DEF JobOK, HasPipe
<1>7. ASSUME NEW u \in Threads \ {t}, NEW k \in 1 .. Len(Names) PROVE JobOK(u, k)'
  <2>1. JobOK(u, k)
    BY DEF JobInv
  <2>2. QED
    BY <1>1, <1>2, <1>4, <2>1 DEF JobOK
<1>8. pc'[t] \in HasJob => job'[t] \in 1 .. Len(Names)
  BY <1>3, <1>5, SizesAssumption DEF HasJob
<1>9. QED
  BY <1>2, <1>6, <1>7, <1>8 DEF JobInv

LEMMA JobNext ==
  ASSUME Inv, [Next]_vars
  PROVE  JobInv'
<1>1. CallType /\ ChildType /\ JobInv
  BY TypeParts DEF Inv
<1>2. ASSUME NEW t \in Threads, InModule(t) PROVE JobInv'
  <2>1. pc[t] \in HasJob
    BY <1>2 DEF InModule, MakePipe, Fork, CloseWriter, Read, ReadEnds, WaitPid, Parse, Done, HasJob, HasPipe
  <2>2. QED
    BY <1>1, <1>2, <2>1, InModuleJobs DEF JobInv
<1>3. ASSUME UNCHANGED vars PROVE JobInv'
  BY <1>1, <1>3 DEF vars, callVars, pipeVars, childVars, failVars, JobInv, JobOK, Fresh, Reaped, Ends
<1>4. QED
  BY <1>1, <1>2, <1>3, ChildJobs, BetweenJobs DEF Next, GetBacktraceSymbols

-----------------------------------------------------------------------------
LEMMA InvInit == Init => Inv
<1> SUFFICES ASSUME Init PROVE Inv
    OBVIOUS
<1>1. 1 \in 1 .. Len(Names) + 1 /\ 0 <= PIPE_SIZE /\ <<>> \in Seq({}) /\ Len(<<>>) = 0
  BY SizesAssumption
<1>2. TypeOK
  BY <1>1 DEF Init, TypeOK
<1>3. PipeInv
  <2>1. pipe = [j \in Jobs |-> pipe[j]] /\ \A j \in Jobs : pipe[j] \in Seq({})
    BY <1>1 DEF Init
  <2>2. QED
    BY <2>1 DEF PipeInv
<1>4. ASSUME NEW t \in Threads, NEW k \in 1 .. Len(Names) PROVE JobOK(t, k)
  <2>1. <<t, k>> \in Jobs /\ k \in Nat /\ k >= 1
    BY JobsArePairs, SizesAssumption
  <2>2. Fresh(<<t, k>>) /\ job[t] = 1 /\ pc[t] = "idle"
    BY <2>1 DEF Init, Fresh, Ends
  <2>3. QED
    BY <2>1, <2>2 DEF JobOK, HasPipe
<1>5. JobInv
  BY <1>4 DEF JobInv, Init, HasJob, HasPipe
<1>6. QED
  BY <1>2, <1>3, <1>5 DEF Inv

LEMMA InvNext == Inv /\ [Next]_vars => Inv'
  BY TypeNext, JobNext, PipeNext DEF Inv

(***************************************************************************)
(* Whichever of the system calls of GetBacktraceSymbolsForModule fails,    *)
(* and however its forks inherit the pipes of other threads, the label     *)
(* done gives back what the job had, but for a child whose waitpid failed. *)
(***************************************************************************)
THEOREM JobsGiveBack == Spec => []EverythingGivenBack
<1>1. Spec => []Inv
  BY InvInit, InvNext, PTL DEF Spec
<1>2. Inv => EverythingGivenBack
  BY DEF Inv, JobInv, JobOK, Reaped, Ends, EverythingGivenBack
<1>3. QED
  BY <1>1, <1>2, PTL

-----------------------------------------------------------------------------
(***************************************************************************)
(* Numbers in order: the place of a number is how many are not above it.   *)
(***************************************************************************)
Rank(S, x) == Cardinality({y \in S : y <= x})

LEMMA RankBounds ==
  ASSUME NEW S, S \subseteq Int, IsFiniteSet(S), NEW x \in S
  PROVE  Rank(S, x) \in 1 .. Cardinality(S)
<1> DEFINE T == {y \in S : y <= x}
<1>1. T \in SUBSET S /\ x \in T
  OBVIOUS
<1> HIDE DEF T
<1>2. IsFiniteSet(T) /\ Cardinality(T) <= Cardinality(S)
  BY <1>1, FS_Subset
<1>3. Cardinality(T) \in Nat /\ Cardinality(S) \in Nat /\ Cardinality(T) # 0
  BY <1>1, <1>2, FS_CardinalityType, FS_EmptySet
<1>4. Rank(S, x) = Cardinality(T)
  BY DEF Rank, T
<1>5. QED
  BY <1>2, <1>3, <1>4

LEMMA RankGrows ==
  ASSUME NEW S, S \subseteq Int, IsFiniteSet(S), NEW x \in S, NEW y \in S, x < y
  PROVE  Rank(S, x) < Rank(S, y)
<1> DEFINE T == {z \in S : z <= x}
           V == {z \in S : z <= y}
<1>0. y <= y /\ ~(y <= x) /\ \A z \in S : z <= x => z <= y
  OBVIOUS
<1>1. T \in SUBSET V /\ V \in SUBSET S /\ y \in V /\ y \notin T
  BY <1>0, Zenon
<1> HIDE DEF T, V
<1>2. IsFiniteSet(V)
  BY <1>1, FS_Subset
<1>3. IsFiniteSet(T) /\ Cardinality(T) <= Cardinality(V) /\ Cardinality(T) # Cardinality(V)
  BY <1>1, <1>2, FS_Subset
<1>4. Cardinality(T) \in Nat /\ Cardinality(V) \in Nat
  BY <1>2, <1>3, FS_CardinalityType
<1>5. Rank(S, x) = Cardinality(T) /\ Rank(S, y) = Cardinality(V)
  BY DEF Rank, T, V
<1>6. QED
  BY <1>3, <1>4, <1>5

LEMMA RankOnto ==
  ASSUME NEW S, S \subseteq Int, IsFiniteSet(S), NEW k \in 1 .. Cardinality(S)
  PROVE  \E x \in S : Rank(S, x) = k
<1> DEFINE n == Cardinality(S)
           f == [x \in S |-> Rank(S, x)]
<1>1. n \in Nat
  BY FS_CardinalityType
<1>2. f \in [S -> 1 .. n]
  BY RankBounds
<1>3. ASSUME NEW x \in S, NEW y \in S, f[x] = f[y] PROVE x = y
  <2>1. Rank(S, x) = Rank(S, y)
    BY <1>3
  <2>2. Rank(S, x) \in 1 .. n /\ x \in Int /\ y \in Int
    BY RankBounds
  <2>3. Rank(S, x) \in Int
    BY <1>1, <2>2
  <2>4. x < y => Rank(S, x) < Rank(S, y)
    BY RankGrows
  <2>5. y < x => Rank(S, y) < Rank(S, x)
    BY RankGrows
  <2> HIDE DEF f, n
  <2>6. QED
    BY <2>1, <2>2, <2>3, <2>4, <2>5
<1>4. f \in Injection(S, 1 .. n)
  BY <1>2, <1>3 DEF Injection, IsInjective
<1>5. IsFiniteSet(1 .. n) /\ Cardinality(1 .. n) = n
  <2>1. Cardinality(1 .. n) = IF 1 > n THEN 0 ELSE n - 1 + 1
    BY <1>1, FS_Interval
  <2>2. QED
    BY <1>1, <2>1, FS_Interval
<1>6. f \in Surjection(S, 1 .. n)
  <2> HIDE DEF f, n
  <2>1. Cardinality(S) = Cardinality(1 .. n)
    BY <1>5 DEF n
  <2>2. QED
    BY <1>4, <1>5, <2>1, FS_Injection
<1>7. \E x \in S : f[x] = k
  BY <1>6 DEF Surjection
<1>8. QED
  BY <1>7

(* Each number is at its place, so none twice, and the first is the least. *)
LEMMA InOrderRight ==
  ASSUME NEW S, S \subseteq Int, IsFiniteSet(S)
  PROVE  /\ InOrder(S) \in Seq(S)
         /\ Len(InOrder(S)) = Cardinality(S)
         /\ \A k, l \in 1 .. Len(InOrder(S)) : InOrder(S)[k] = InOrder(S)[l] => k = l
         /\ InOrder(S) # <<>> => \A x \in S : InOrder(S)[1] <= x
<1> DEFINE n == Cardinality(S)
           s == InOrder(S)
<1>1. n \in Nat
  BY FS_CardinalityType
<1>2. ASSUME NEW k \in 1 .. n PROVE s[k] \in S /\ Rank(S, s[k]) = k
  <2>1. s[k] = CHOOSE x \in S : Rank(S, x) = k
    BY DEF InOrder, Rank
  <2>2. \E x \in S : Rank(S, x) = k
    BY RankOnto
  <2> HIDE DEF s
  <2>3. QED
    BY <2>1, <2>2
<1>3. s = [k \in 1 .. n |-> s[k]]
  BY DEF InOrder
<1> HIDE DEF s
<1>4. s \in Seq(S) /\ Len(s) = n
  BY <1>1, <1>2, <1>3
<1>5. \A k, l \in 1 .. n : s[k] = s[l] => k = l
  BY <1>2
<1>6. ASSUME s # <<>>, NEW x \in S PROVE s[1] <= x
  <2>1. n # 0
    BY <1>4, <1>6, EmptySeq
  <2>2. s[1] \in S /\ Rank(S, s[1]) = 1
    BY <1>1, <1>2, <2>1
  <2>3. Rank(S, x) \in 1 .. n /\ s[1] \in Int /\ x \in Int
    BY <2>2, RankBounds
  <2>4. ~(x < s[1])
    <3>1. ~(Rank(S, x) < 1)
      BY <1>1, <2>3
    <3>2. QED
      BY <2>2, <3>1, RankGrows
  <2>5. QED
    BY <2>3, <2>4
<1>7. n = Cardinality(S)
  OBVIOUS
<1>8. QED
  BY <1>4, <1>5, <1>6, <1>7 DEF s

-----------------------------------------------------------------------------
(***************************************************************************)
(* The ranges of a module: what they cover, and where they begin.          *)
(***************************************************************************)
NamesOfLines == {r.name : r \in ToSet(Maps)}
RangeType == [begin : Int, end : Int, name : NamesOfLines]
LinesOf(name) == {r \in Lines : r.name = name}

Covers(ranges, a) == \E k \in 1 .. Len(ranges) : InRange(a, ranges[k])

LEMMA LinesRight ==
  /\ IsFiniteSet(ToSet(Maps))
  /\ ToSet(Maps) \subseteq RangeType
<1>1. Maps \in Seq(RangeType)
  BY MapsAssumption DEF RangeType, NamesOfLines
<1>2. Len(Maps) \in Nat /\ DOMAIN Maps = 1 .. Len(Maps) /\ \A k \in 1 .. Len(Maps) : Maps[k] \in RangeType
  BY <1>1, LenProperties, ElementOfSeq
<1> DEFINE n == Len(Maps)
           f == [k \in 1 .. n |-> Maps[k]]
<1>3. IsFiniteSet(1 .. n)
  BY <1>2, FS_Interval
<1>4. ToSet(Maps) = {f[k] : k \in 1 .. n}
  BY <1>2 DEF ToSet
<1>5. f \in Surjection(1 .. n, ToSet(Maps))
  BY <1>4 DEF Surjection
<1>6. IsFiniteSet(ToSet(Maps))
  BY <1>3, <1>5, FS_Surjection
<1>7. QED
  BY <1>2, <1>6 DEF ToSet

LEMMA SortedRight ==
  ASSUME NEW name
  PROVE  LET s == Sorted(LinesOf(name))
         IN  /\ s \in Seq(LinesOf(name))
             /\ LinesOf(name) # {} => s # <<>>
             /\ s # <<>> => \A r \in LinesOf(name) : s[1].begin <= r.begin
<1> DEFINE R == LinesOf(name)
           B == {r.begin : r \in R}
           b == InOrder(B)
           s == Sorted(R)
<1>1. R \in SUBSET ToSet(Maps) /\ R \subseteq RangeType
  BY LinesRight DEF LinesOf, Lines
<1>2. IsFiniteSet(R)
  BY <1>1, LinesRight, FS_Subset
<1> DEFINE f == [r \in R |-> r.begin]
<1>3. f \in Surjection(R, B)
  BY DEF Surjection
<1>4. IsFiniteSet(B) /\ B \subseteq Int
  <2>1. IsFiniteSet(B)
    BY <1>2, <1>3, FS_Surjection
  <2>2. B \subseteq Int
    BY <1>1 DEF RangeType
  <2>3. QED
    BY <2>1, <2>2
<1>5. s = [k \in DOMAIN b |-> CHOOSE r \in R : r.begin = b[k]]
  BY DEF Sorted
<1>6. \A x \in B : \E r \in R : r.begin = x
  OBVIOUS
<1>7. R # {} => B # {}
  OBVIOUS
<1>8. \A r \in R : r.begin \in B
  OBVIOUS
<1> HIDE DEF B, b, s, R, f
<1>9. /\ b \in Seq(B) /\ Len(b) = Cardinality(B)
      /\ b # <<>> => \A x \in B : b[1] <= x
  BY <1>4, InOrderRight DEF b
<1>10. Len(b) \in Nat /\ DOMAIN b = 1 .. Len(b) /\ \A k \in 1 .. Len(b) : b[k] \in B
  BY <1>9, LenProperties, ElementOfSeq
<1>11. \A k \in 1 .. Len(b) : s[k] \in R /\ s[k].begin = b[k]
  BY <1>5, <1>6, <1>10
<1>12. s \in Seq(R) /\ Len(s) = Len(b)
  BY <1>5, <1>10, <1>11
<1>13. R # {} => s # <<>>
  <2> SUFFICES ASSUME R # {} PROVE s # <<>>
    OBVIOUS
  <2>1. Len(b) # 0
    BY <1>4, <1>7, <1>9, FS_EmptySet
  <2>2. QED
    BY <1>12, <2>1, EmptySeq
<1>14. ASSUME s # <<>>, NEW r \in R PROVE s[1].begin <= r.begin
  <2>1. Len(s) \in Nat \ {0}
    BY <1>12, <1>14, EmptySeq
  <2>2. 1 \in 1 .. Len(b) /\ b # <<>>
    BY <1>12, <2>1, EmptySeq
  <2>3. b[1] <= r.begin
    BY <1>8, <1>9, <2>2
  <2>4. QED
    BY <1>11, <2>2, <2>3
<1>15. QED
  BY <1>12, <1>13, <1>14 DEF s, R

LEMMA MergeRight ==
  ASSUME NEW ranges \in Seq(RangeType), NEW r \in RangeType
  PROVE  /\ Merge(ranges, r) \in Seq(RangeType)
         /\ Merge(ranges, r) # <<>>
         /\ Merge(ranges, r)[1].begin = IF ranges = <<>> THEN r.begin ELSE ranges[1].begin
         /\ \A a \in Int : Covers(Merge(ranges, r), a) => Covers(ranges, a) \/ InRange(a, r)
<1> DEFINE n == Len(ranges)
<1>1. n \in Nat /\ \A k \in 1 .. n : ranges[k] \in RangeType
  BY LenProperties, ElementOfSeq
<1>2. r = [begin |-> r.begin, end |-> r.end, name |-> r.name] /\ r.begin \in Int /\ r.end \in Int
  BY DEF RangeType
<1>3. CASE ranges # <<>> /\ Last(ranges).end = r.begin
  <2>1. n \in 1 .. n /\ n # 0 /\ ranges[n].end = r.begin
    <3>1. n # 0
      BY <1>3, EmptySeq
    <3>2. QED
      BY <1>1, <1>3, <3>1 DEF Last
  <2>2. PICK q : q = [ranges[n] EXCEPT !.end = r.end]
    OBVIOUS
  <2>3. ranges[n] \in RangeType
    BY <1>1, <2>1
  <2>4. q \in RangeType /\ q.begin = ranges[n].begin /\ q.end = r.end
    BY <1>2, <2>2, <2>3 DEF RangeType
  <2>5. Merge(ranges, r) = [ranges EXCEPT ![n] = q]
    BY <1>3, <2>2 DEF Merge
  <2> HIDE DEF n
  <2>6. PICK m : m = Merge(ranges, r)
    OBVIOUS
  <2>7. /\ m \in Seq(RangeType) /\ Len(m) = Len(ranges)
        /\ \A k \in 1 .. n : m[k] = IF k = n THEN q ELSE ranges[k]
    BY <2>1, <2>4, <2>5, <2>6, ExceptSeq DEF n
  <2>8. m # <<>>
    BY <2>1, <2>7, EmptySeq DEF n
  <2>9. m[1].begin = ranges[1].begin
    <3>1. 1 \in 1 .. n
      BY <1>1, <2>1
    <3>2. QED
      BY <2>4, <2>7, <3>1
  <2>10. ASSUME NEW a \in Int, Covers(m, a) PROVE Covers(ranges, a) \/ InRange(a, r)
    <3>1. PICK k \in 1 .. n : InRange(a, m[k])
      BY <2>7, <2>10 DEF Covers, n
    <3>2. CASE k # n
      <4>1. InRange(a, ranges[k])
        BY <2>7, <3>1, <3>2
      <4>2. QED
        BY <4>1 DEF Covers, n
    <3>3. CASE k = n
      <4>1. a >= ranges[n].begin /\ a < r.end
        BY <2>4, <2>7, <3>1, <3>3 DEF InRange
      <4>2. a < ranges[n].end \/ a >= r.begin
        BY <1>2, <2>1
      <4>3. InRange(a, ranges[n]) \/ InRange(a, r)
        BY <4>1, <4>2 DEF InRange
      <4>4. QED
        BY <2>1, <4>3 DEF Covers, n
    <3>4. QED
      BY <3>2, <3>3
  <2>11. QED
    BY <1>3, <2>6, <2>7, <2>8, <2>9, <2>10
<1>4. CASE ~(ranges # <<>> /\ Last(ranges).end = r.begin)
  <2>1. PICK m : m = Merge(ranges, r)
    OBVIOUS
  <2>2. m = Append(ranges, r)
    BY <1>4, <2>1 DEF Merge
  <2>3. /\ m \in Seq(RangeType) /\ Len(m) = n + 1
        /\ \A k \in 1 .. n : m[k] = ranges[k]
        /\ m[n + 1] = r
    BY <2>2, AppendProperties
  <2>4. m # <<>>
    BY <1>1, <2>3, EmptySeq
  <2>5. m[1].begin = IF ranges = <<>> THEN r.begin ELSE ranges[1].begin
    <3>1. CASE ranges = <<>>
      BY <2>3, <3>1, EmptySeq
    <3>2. CASE ranges # <<>>
      <4>1. n # 0
        BY <3>2, EmptySeq
      <4>2. 1 \in 1 .. n
        BY <1>1, <4>1
      <4>3. QED
        BY <2>3, <3>2, <4>2
    <3>3. QED
      BY <3>1, <3>2
  <2>6. ASSUME NEW a \in Int, Covers(m, a) PROVE Covers(ranges, a) \/ InRange(a, r)
    <3>1. PICK k \in 1 .. n + 1 : InRange(a, m[k])
      BY <2>3, <2>6 DEF Covers
    <3>2. k \in 1 .. n \/ k = n + 1
      BY <1>1
    <3>3. QED
      BY <2>3, <3>1, <3>2 DEF Covers
  <2>7. QED
    BY <2>1, <2>3, <2>4, <2>5, <2>6
<1>5. QED
  BY <1>3, <1>4

-----------------------------------------------------------------------------
(* The ranges merged one by one: they cover what the lines cover, and the  *)
(* first one begins where the first line does.                             *)
LEMMA MergedRight ==
  ASSUME NEW s \in Seq(RangeType), NEW v,
         v = [n \in 0 .. Len(s) |-> IF n = 0 THEN <<>> ELSE Merge(v[n - 1], s[n])]
  PROVE  /\ v[Len(s)] \in Seq(RangeType)
         /\ v[Len(s)] # <<>> => s # <<>> /\ v[Len(s)][1].begin = s[1].begin
         /\ \A a \in Int : Covers(v[Len(s)], a) => Covers(s, a)
<1> DEFINE Good(n) == /\ v[n] \in Seq(RangeType)
                      /\ n = 0 => v[n] = <<>>
                      /\ n > 0 => v[n] # <<>> /\ v[n][1].begin = s[1].begin
                      /\ \A a \in Int : Covers(v[n], a) => Covers(s, a)
           S == {n \in 0 .. Len(s) : Good(n)}
<1>1. Len(s) \in Nat /\ \A k \in 1 .. Len(s) : s[k] \in RangeType
  BY LenProperties, ElementOfSeq
<1>2. 0 \in S
  <2>1. v[0] = <<>> /\ 0 \in 0 .. Len(s)
    BY <1>1
  <2>2. <<>> \in Seq(RangeType) /\ Len(<<>>) = 0
    BY EmptySeq
  <2>3. \A a : ~Covers(<<>>, a)
    BY <2>2 DEF Covers
  <2>4. Good(0)
    BY <2>1, <2>2, <2>3
  <2>5. QED
    BY <2>1, <2>4
<1>3. ASSUME NEW n \in 0 .. Len(s), n < Len(s), n \in S PROVE n + 1 \in S
  <2>1. PICK m : m = n + 1
    OBVIOUS
  <2>2. m \in 1 .. Len(s) /\ m \in 0 .. Len(s) /\ m # 0 /\ m - 1 = n /\ m > 0
    BY <1>1, <1>3, <2>1
  <2>3. PICK x, y : x = v[n] /\ y = v[m]
    OBVIOUS
  <2>4. PICK r \in RangeType : r = s[m]
    BY <1>1, <2>2
  <2>5. y = Merge(x, r)
    BY <2>2, <2>3, <2>4
  <2>6. /\ x \in Seq(RangeType)
        /\ n = 0 => x = <<>>
        /\ n > 0 => x # <<>> /\ x[1].begin = s[1].begin
        /\ \A a \in Int : Covers(x, a) => Covers(s, a)
    BY <1>3, <2>3
  <2>7. /\ y \in Seq(RangeType) /\ y # <<>>
        /\ y[1].begin = IF x = <<>> THEN r.begin ELSE x[1].begin
        /\ \A a \in Int : Covers(y, a) => Covers(x, a) \/ InRange(a, r)
    BY <2>5, <2>6, MergeRight
  <2>8. y[1].begin = s[1].begin
    <3>1. CASE n = 0
      BY <2>1, <2>4, <2>6, <2>7, <3>1
    <3>2. CASE n # 0
      <4>1. n > 0
        BY <3>2
      <4>2. QED
        BY <2>6, <2>7, <4>1
    <3>3. QED
      BY <3>1, <3>2
  <2>9. \A a \in Int : Covers(y, a) => Covers(s, a)
    <3>1. \A a \in Int : InRange(a, r) => Covers(s, a)
      BY <2>2, <2>4 DEF Covers
    <3>2. QED
      BY <2>6, <2>7, <3>1
  <2>10. Good(m)
    BY <2>2, <2>3, <2>7, <2>8, <2>9
  <2>11. QED
    BY <2>1, <2>2, <2>10
<1> HIDE DEF Good
<1>4. 0 .. Len(s) \subseteq S
  <2> HIDE DEF S
  <2>1. QED
    BY <1>1, <1>2, <1>3, EveryNumberTo
<1>5. Len(s) \in 0 .. Len(s)
  BY <1>1
<1>6. Good(Len(s))
  BY <1>4, <1>5
<1>7. CASE s = <<>>
  <2>1. Len(s) = 0
    BY <1>7, EmptySeq
  <2>2. QED
    BY <1>6, <2>1 DEF Good
<1>8. CASE s # <<>>
  <2>1. Len(s) > 0
    BY <1>1, <1>8, EmptySeq
  <2>2. QED
    BY <1>6, <1>8, <2>1 DEF Good
<1>9. QED
  BY <1>7, <1>8

LEMMA ModuleRangesRight ==
  ASSUME NEW name \in ToSet(Names)
  PROVE  /\ ModuleRanges[name] \in Seq(RangeType)
         /\ \A a \in Int : Covers(ModuleRanges[name], a) => \E r \in LinesOf(name) : InRange(a, r)
         /\ ModuleRanges[name] # <<>> => ModuleRanges[name][1].begin = LoadAddress(name)
<1> DEFINE s == Sorted(LinesOf(name))
           Good(v) == v = [n \in 0 .. Len(s) |-> IF n = 0 THEN <<>> ELSE Merge(v[n - 1], s[n])]
           ranges == (CHOOSE v : Good(v))[Len(s)]
<1>1. LinesOf(name) \subseteq RangeType
  BY LinesRight DEF LinesOf, Lines
<1>2. ModuleRanges[name] = ranges
  BY DEF ModuleRanges, LinesOf
<1>3. /\ s \in Seq(LinesOf(name))
      /\ s # <<>> => \A r \in LinesOf(name) : s[1].begin <= r.begin
  BY SortedRight
<1> HIDE DEF s
<1>4. /\ s \in Seq(RangeType) /\ Len(s) \in Nat /\ \A k \in 1 .. Len(s) : s[k] \in LinesOf(name)
  BY <1>1, <1>3, SeqMonotonic, LenProperties, ElementOfSeq
<1>5. \E v : Good(v)
  <2> DEFINE T == Seq(RangeType)
             f == [n \in Nat |-> [x \in T |-> IF n \in 1 .. Len(s) THEN Merge(x, s[n]) ELSE x]]
  <2>1. <<>> \in T
    BY EmptySeq
  <2>2. \A n \in 1 .. Len(s) : s[n] \in RangeType
    BY <1>4, ElementOfSeq
  <2>3. \A x \in T, n \in 1 .. Len(s) : Merge(x, s[n]) \in T
    BY <2>2, MergeRight
  <2>4. f \in [Nat -> [T -> T]]
    BY <2>3
  <2> HIDE DEF T, f
  <2>5. PICK v \in [0 .. Len(s) -> T] : v = [i \in 0 .. Len(s) |-> IF i = 0 THEN <<>> ELSE f[i][v[i - 1]]]
    <3>1. \A n \in Nat : \A a \in T : \E v \in [0 .. n -> T] : FollowsFrom(v, n, a, f)
      BY <2>4, Recurs
    <3>2. PICK v \in [0 .. Len(s) -> T] : FollowsFrom(v, Len(s), <<>>, f)
      BY <1>4, <2>1, <3>1
    <3>3. QED
      BY <3>2 DEF FollowsFrom
  <2>6. ASSUME NEW i \in 1 .. Len(s) PROVE f[i][v[i - 1]] = Merge(v[i - 1], s[i])
    <3>1. i - 1 \in 0 .. Len(s) /\ i \in Nat
      BY <1>4
    <3>2. v[i - 1] \in T
      BY <2>5, <3>1
    <3>3. QED
      BY <3>1, <3>2 DEF f
  <2>7. \A i \in 0 .. Len(s) : i # 0 => i \in 1 .. Len(s)
    BY <1>4
  <2>8. v = [i \in 0 .. Len(s) |-> IF i = 0 THEN <<>> ELSE Merge(v[i - 1], s[i])]
    BY <2>5, <2>6, <2>7
  <2>9. QED
    BY <2>8
<1>6. PICK v : Good(v) /\ ranges = v[Len(s)]
  BY <1>5
<1> HIDE DEF ranges
<1>7. /\ ranges \in Seq(RangeType)
      /\ ranges # <<>> => s # <<>> /\ ranges[1].begin = s[1].begin
      /\ \A a \in Int : Covers(ranges, a) => Covers(s, a)
  BY <1>4, <1>6, MergedRight
<1>8. \A a \in Int : Covers(s, a) => \E r \in LinesOf(name) : InRange(a, r)
  BY <1>4 DEF Covers
<1>9. ASSUME s # <<>> PROVE s[1].begin = LoadAddress(name)
  <2>1. 1 \in 1 .. Len(s)
    BY <1>4, <1>9, EmptySeq
  <2>2. s[1] \in LinesOf(name) /\ \A r \in LinesOf(name) : s[1].begin <= r.begin
    BY <1>3, <1>4, <1>9, <2>1
  <2> DEFINE B == {r.begin : r \in {m \in ToSet(Maps) : m.name = name}}
             b == s[1].begin
  <2>3. {m \in ToSet(Maps) : m.name = name} = LinesOf(name)
    BY <2>2 DEF LinesOf, Lines
  <2>4. b \in B /\ (\A x \in B : b <= x) /\ B \subseteq Int
    BY <1>1, <2>2, <2>3 DEF RangeType
  <2>5. LoadAddress(name) = CHOOSE x \in B : \A y \in B : x <= y
    BY DEF LoadAddress, Min
  <2> HIDE DEF B, b
  <2>6. \A x \in B : (\A y \in B : x <= y) => x = b
    BY <2>4
  <2>7. LoadAddress(name) = b
    BY <2>4, <2>5, <2>6
  <2>8. QED
    BY <2>7 DEF b
<1>10. QED
  BY <1>2, <1>7, <1>8, <1>9

(***************************************************************************)
(* The addresses of a module: each once, each in one of its lines, and of  *)
(* no other module.                                                        *)
(***************************************************************************)
LEMMA IndexesRight ==
  ASSUME NEW name \in ToSet(Names)
  PROVE  /\ Indexes[name] \in Seq(Index)
         /\ \A p, q \in 1 .. Len(Indexes[name]) : Indexes[name][p] = Indexes[name][q] => p = q
         /\ \A p \in 1 .. Len(Indexes[name]) : \E r \in LinesOf(name) : InRange(Addresses[Indexes[name][p]], r)
         /\ \A p \in 1 .. Len(Indexes[name]) : Addresses[Indexes[name][p]] = LoadAddress(name) + Offset(name, Indexes[name][p])
<1> DEFINE ranges == ModuleRanges[name]
           S == {i \in Index : \E r \in ToSet(ranges) : InRange(Addresses[i], r)}
           s == InOrder(S)
<1>1. Indexes[name] = s
  BY DEF Indexes
<1>2. Len(Addresses) \in Nat /\ \A i \in Index : Addresses[i] \in Int
  BY FramesAssumption, LenProperties, ElementOfSeq DEF Index
<1>3. IsFiniteSet(Index) /\ Index \subseteq Int
  BY <1>2, FS_Interval DEF Index
<1>4. S \subseteq Int /\ IsFiniteSet(S)
  <2>1. S \in SUBSET Index
    OBVIOUS
  <2>2. QED
    BY <1>3, <2>1, FS_Subset
<1>5. /\ ranges \in Seq(RangeType)
      /\ \A a \in Int : Covers(ranges, a) => \E r \in LinesOf(name) : InRange(a, r)
      /\ ranges # <<>> => ranges[1].begin = LoadAddress(name)
  BY ModuleRangesRight
<1> HIDE DEF ranges
<1>6. DOMAIN ranges = 1 .. Len(ranges) /\ Len(ranges) \in Nat
  BY <1>5, LenProperties
<1>7. \A i \in S : i \in Index /\ Covers(ranges, Addresses[i])
  BY <1>6 DEF ToSet, Covers
<1> HIDE DEF S, s
<1>8. /\ s \in Seq(S)
      /\ \A k, l \in 1 .. Len(s) : s[k] = s[l] => k = l
  BY <1>4, InOrderRight DEF s
<1>9. \A p \in 1 .. Len(s) : s[p] \in S
  BY <1>8, ElementOfSeq
<1>10. s \in Seq(Index)
  BY <1>7, <1>8, SeqMonotonic
<1>11. ASSUME NEW p \in 1 .. Len(s)
       PROVE  /\ \E r \in LinesOf(name) : InRange(Addresses[s[p]], r)
              /\ Addresses[s[p]] = LoadAddress(name) + Offset(name, s[p])
  <2>1. PICK i \in Index : i = s[p] /\ Covers(ranges, Addresses[i])
    BY <1>7, <1>9
  <2>2. Addresses[i] \in Int /\ \E r \in LinesOf(name) : InRange(Addresses[i], r)
    BY <1>2, <1>5, <2>1
  <2>3. ranges # <<>>
    BY <2>1, EmptySeq DEF Covers
  <2>4. 1 \in 1 .. Len(ranges)
    BY <1>5, <2>3, EmptySeq
  <2>5. ranges[1] \in RangeType
    BY <1>5, <2>4, ElementOfSeq
  <2>6. ranges[1].begin \in Int
    BY <2>5 DEF RangeType
  <2>7. Offset(name, i) = Addresses[i] - ranges[1].begin
    BY DEF Offset, ranges
  <2>8. Addresses[i] = ranges[1].begin + Offset(name, i)
    BY <2>2, <2>6, <2>7
  <2>9. QED
    BY <1>5, <2>1, <2>2, <2>3, <2>8
<1>12. QED
  BY <1>1, <1>8, <1>10, <1>11

LEMMA NoAddressOfTwo ==
  ASSUME NEW a \in ToSet(Names), NEW b \in ToSet(Names), a # b,
         NEW p \in 1 .. Len(Indexes[a]), NEW q \in 1 .. Len(Indexes[b])
  PROVE  Indexes[a][p] # Indexes[b][q]
<1> SUFFICES ASSUME Indexes[a][p] = Indexes[b][q] PROVE FALSE
  OBVIOUS
<1>1. PICK i : i = Indexes[a][p]
  OBVIOUS
<1>2. PICK r \in LinesOf(a) : InRange(Addresses[i], r)
  BY <1>1, IndexesRight
<1>3. PICK s \in LinesOf(b) : InRange(Addresses[i], s)
  BY <1>1, IndexesRight
<1>4. r \in Lines /\ s \in Lines /\ r # s
  BY <1>2, <1>3 DEF LinesOf
<1>5. r.end <= s.begin \/ s.end <= r.begin
  BY <1>4, MapsAssumption
<1>6. /\ r.begin \in Int /\ r.end \in Int /\ s.begin \in Int /\ s.end \in Int
  BY <1>4, LinesRight DEF Lines, RangeType
<1>7. i \in Index
  BY <1>1, IndexesRight, ElementOfSeq
<1>8. Addresses[i] \in Int
  BY <1>7, FramesAssumption, ElementOfSeq DEF Index
<1>9. QED
  BY <1>2, <1>3, <1>5, <1>6, <1>8 DEF InRange

(***************************************************************************)
(* What addr2line writes has at the place of an address its innermost      *)
(* frame, if those before it have one each.                                *)
(***************************************************************************)
LEMMA Addr2LineRight ==
  ASSUME NEW name \in ToSet(Names)
  PROVE  /\ Addr2Line(name) \in Seq(SymbolsOf)
         /\ \A p \in 1 .. Len(Indexes[name]) :
              (\A q \in 1 .. p - 1 : Len(Frames[Addresses[Indexes[name][q]]]) = 1) =>
                /\ p \in 1 .. Len(Addr2Line(name))
                /\ Addr2Line(name)[p] = Head(Frames[Addresses[Indexes[name][p]]])
<1> DEFINE s == Indexes[name]
           f == [p \in 1 .. Len(s) |-> Frames[Addresses[s[p]]]]
<1>1. /\ s \in Seq(Index)
      /\ \A p \in 1 .. Len(s) : Addresses[s[p]] = LoadAddress(name) + Offset(name, s[p])
  BY IndexesRight
<1> HIDE DEF s
<1>2. Len(s) \in Nat /\ DOMAIN s = 1 .. Len(s) /\ \A p \in 1 .. Len(s) : s[p] \in Index
  BY <1>1, LenProperties, ElementOfSeq
<1>3. \A p \in 1 .. Len(s) : Frames[Addresses[s[p]]] \in Seq(SymbolsOf) /\ Frames[Addresses[s[p]]] # <<>>
  BY <1>2, FramesAssumption
<1>4. Addr2Line(name) = FlattenSeq(f)
  <2> DEFINE offsets == [p \in DOMAIN s |-> Offset(name, s[p])]
             g == [p \in DOMAIN offsets |-> Frames[LoadAddress(name) + offsets[p]]]
  <2>1. Addr2Line(name) = FlattenSeq(g)
    BY DEF Addr2Line, s
  <2>2. \A p \in 1 .. Len(s) : Frames[LoadAddress(name) + offsets[p]] = Frames[Addresses[s[p]]]
    BY <1>1, <1>2
  <2>3. DOMAIN offsets = 1 .. Len(s)
    BY <1>2
  <2>4. g = f
    BY <2>2, <2>3
  <2>5. QED
    BY <2>1, <2>4
<1>5. f \in Seq(Seq(SymbolsOf)) /\ Len(f) = Len(s)
  BY <1>2, <1>3
<1>6. \A p \in 1 .. Len(s) : f[p] = Frames[Addresses[s[p]]] /\ f[p] # <<>>
  BY <1>3
<1> HIDE DEF f
<1>7. FlattenSeq(f) \in Seq(SymbolsOf)
  BY <1>5, FlattenType
<1>8. ASSUME NEW p \in 1 .. Len(s), \A q \in 1 .. p - 1 : Len(Frames[Addresses[s[q]]]) = 1
      PROVE  p \in 1 .. Len(FlattenSeq(f)) /\ FlattenSeq(f)[p] = Head(Frames[Addresses[s[p]]])
  <2>1. p \in 1 .. Len(f) /\ f[p] # <<>>
    BY <1>5, <1>6
  <2>2. \A q \in 1 .. p - 1 : q \in 1 .. Len(s)
    BY <1>2
  <2>3. \A q \in 1 .. (p - 1) : Len(f[q]) = 1
    BY <1>6, <1>8, <2>2
  <2>4. p \in 1 .. Len(FlattenSeq(f)) /\ FlattenSeq(f)[p] = f[p][1]
    BY <1>5, <2>1, <2>3, FlattenBehindSingles
  <2>5. Head(f[p]) = f[p][1]
    OBVIOUS
  <2>6. QED
    BY <1>6, <2>4, <2>5
<1>9. QED
  BY <1>4, <1>7, <1>8 DEF s

-----------------------------------------------------------------------------
(***************************************************************************)
(* What a child is to write is in its hands, in the pipe or read, in this  *)
(* order; before the fork there is nothing.                                *)
(***************************************************************************)
Flowing(j) == output[j] \o (pipe[j] \o left[j])

FlowOK(j) ==
  /\ output[j] \in Seq(SymbolsOf) /\ pipe[j] \in Seq(SymbolsOf) /\ left[j] \in Seq(SymbolsOf)
  /\ child[j] = "none" => output[j] = <<>> /\ pipe[j] = <<>> /\ left[j] = <<>>
  /\ Flowing(j) \in {<<>>, Addr2Line(Names[j[2]])}

FlowInv ==
  /\ output = [j \in Jobs |-> output[j]]
  /\ pipe = [j \in Jobs |-> pipe[j]]
  /\ left = [j \in Jobs |-> left[j]]
  /\ \A j \in Jobs : FlowOK(j)

SymbolsInv ==
  /\ symbols = [t \in Threads |-> [i \in Index |-> symbols[t][i]]]
  /\ OwnSymbols

OwnInv == Inv /\ FlowInv /\ SymbolsInv

LEMMA NamesOfJobs == \A j \in Jobs : j[2] \in 1 .. Len(Names) /\ Names[j[2]] \in ToSet(Names)
<1> SUFFICES ASSUME NEW j \in Jobs PROVE j[2] \in 1 .. Len(Names) /\ Names[j[2]] \in ToSet(Names)
  OBVIOUS
<1>1. j[2] \in 1 .. Len(Names)
  BY DEF Jobs
<1>2. QED
  BY <1>1, NamesAssumption DEF ToSet

-----------------------------------------------------------------------------
LEMMA FlowStays ==
  ASSUME FlowInv, UNCHANGED <<output, pipe, left>>, \A j \in Jobs : child[j] # "none" => child'[j] # "none"
  PROVE  FlowInv'
<1>1. ASSUME NEW j \in Jobs PROVE FlowOK(j)'
  <2>1. FlowOK(j)
    BY DEF FlowInv
  <2>2. Flowing(j)' = Flowing(j)
    BY DEF Flowing
  <2>3. QED
    BY <2>1, <2>2 DEF FlowOK
<1>2. QED
  BY <1>1 DEF FlowInv

(* A step of one job, after which that job flows and the others are as     *)
(* they were.                                                              *)
LEMMA FlowOfOne ==
  ASSUME FlowInv, NEW j \in Jobs, FlowOK(j)',
         output' = [i \in Jobs |-> output'[i]], pipe' = [i \in Jobs |-> pipe'[i]], left' = [i \in Jobs |-> left'[i]],
         \A i \in Jobs : i # j => output'[i] = output[i] /\ pipe'[i] = pipe[i] /\ left'[i] = left[i] /\ child'[i] = child[i]
  PROVE  FlowInv'
<1>1. ASSUME NEW i \in Jobs, i # j PROVE FlowOK(i)'
  <2>1. FlowOK(i)
    BY DEF FlowInv
  <2>2. Flowing(i)' = Flowing(i)
    BY <1>1 DEF Flowing
  <2>3. QED
    BY <1>1, <2>1, <2>2 DEF FlowOK
<1>2. QED
  BY <1>1 DEF FlowInv

LEMMA ChildWritesFlow ==
  ASSUME FlowInv, ChildType, NEW j \in Jobs, ChildWrites(j)
  PROVE  FlowInv'
<1> DEFINE x == output[j]
           y == pipe[j]
           z == left[j]
<1>1. PICK h, u : h = Head(left[j]) /\ u = Tail(left[j])
  OBVIOUS
<1>2. /\ pipe' = [pipe EXCEPT ![j] = Append(@, h)]
      /\ left' = [left EXCEPT ![j] = u]
      /\ left[j] # <<>> /\ UNCHANGED <<output, child>> /\ child[j] = "running"
  BY <1>1 DEF ChildWrites
<1>3. FlowOK(j) /\ x = output[j] /\ y = pipe[j] /\ z = left[j]
  BY DEF FlowInv
<1>4. x \in Seq(SymbolsOf) /\ y \in Seq(SymbolsOf) /\ z \in Seq(SymbolsOf) /\ z # <<>>
  BY <1>2, <1>3 DEF FlowOK
<1>5. pipe'[j] = Append(y, h) /\ left'[j] = u /\ output'[j] = x
  BY <1>2 DEF FlowInv
<1>6. /\ pipe' = [i \in Jobs |-> pipe'[i]] /\ left' = [i \in Jobs |-> left'[i]] /\ output' = [i \in Jobs |-> output'[i]]
      /\ \A i \in Jobs : i # j => output'[i] = output[i] /\ pipe'[i] = pipe[i] /\ left'[i] = left[i] /\ child'[i] = child[i]
  BY <1>2 DEF FlowInv
<1>7. h = Head(z) /\ u = Tail(z)
  BY <1>1
<1> HIDE DEF x, y, z
<1>8. h \in SymbolsOf /\ u \in Seq(SymbolsOf) /\ <<h>> \in Seq(SymbolsOf) /\ z = <<h>> \o u
  BY <1>4, <1>7
<1>9. Append(y, h) = y \o <<h>> /\ Append(y, h) \in Seq(SymbolsOf)
  BY <1>4, <1>8, AppendIsConcat, AppendProperties
<1>10. Append(y, h) \o u = y \o z
  BY <1>4, <1>8, <1>9, ConcatAssociative
<1>11. Flowing(j)' = Flowing(j)
  BY <1>3, <1>5, <1>10 DEF Flowing
<1>12. FlowOK(j)'
  BY <1>2, <1>3, <1>4, <1>5, <1>8, <1>9, <1>11 DEF FlowOK
<1>13. QED
  BY <1>6, <1>12, FlowOfOne

LEMMA ReadFlow ==
  ASSUME FlowInv, ChildType, NEW t, NEW j \in Jobs, Read(t, j), child[j] # "none"
  PROVE  FlowInv'
<1> DEFINE x == output[j]
           y == pipe[j]
           z == left[j]
<1>1. /\ output' = [output EXCEPT ![j] = x \o y]
      /\ pipe' = [pipe EXCEPT ![j] = <<>>]
      /\ UNCHANGED <<left, child>>
  BY DEF Read, childVars
<1>2. FlowOK(j) /\ x = output[j] /\ y = pipe[j] /\ z = left[j]
  BY DEF FlowInv
<1>3. x \in Seq(SymbolsOf) /\ y \in Seq(SymbolsOf) /\ z \in Seq(SymbolsOf)
  BY <1>2 DEF FlowOK
<1>4. pipe'[j] = <<>> /\ left'[j] = z /\ output'[j] = x \o y /\ child'[j] # "none"
  BY <1>1 DEF FlowInv
<1>5. /\ pipe' = [i \in Jobs |-> pipe'[i]] /\ left' = [i \in Jobs |-> left'[i]] /\ output' = [i \in Jobs |-> output'[i]]
      /\ \A i \in Jobs : i # j => output'[i] = output[i] /\ pipe'[i] = pipe[i] /\ left'[i] = left[i] /\ child'[i] = child[i]
  BY <1>1 DEF FlowInv
<1> HIDE DEF x, y, z
<1>6. <<>> \in Seq(SymbolsOf) /\ <<>> \o z = z /\ x \o y \in Seq(SymbolsOf)
  BY <1>3, EmptySeq, ConcatEmptySeq, ConcatProperties
<1>7. (x \o y) \o (<<>> \o z) = x \o (y \o z)
  BY <1>3, <1>6, ConcatAssociative
<1>8. Flowing(j)' = Flowing(j)
  BY <1>2, <1>4, <1>7 DEF Flowing
<1>9. FlowOK(j)'
  BY <1>2, <1>3, <1>4, <1>6, <1>8 DEF FlowOK
<1>10. QED
  BY <1>5, <1>9, FlowOfOne

LEMMA ForkFlow ==
  ASSUME FlowInv, ChildType, NEW t, NEW j \in Jobs, Fork(t, j), child[j] = "none"
  PROVE  FlowInv'
<1>1. CASE UNCHANGED <<output, pipe, left, child>>
  BY <1>1, FlowStays
<1>2. ASSUME NEW ok \in BOOLEAN, left' = [left EXCEPT ![j] = IF ok THEN Addr2Line(Names[j[2]]) ELSE <<>>],
             child' = [child EXCEPT ![j] = "running"], UNCHANGED <<output, pipe>>
      PROVE  FlowInv'
  <2>1. PICK u : u = IF ok THEN Addr2Line(Names[j[2]]) ELSE <<>>
    OBVIOUS
  <2>2. u \in Seq(SymbolsOf) /\ u \in {<<>>, Addr2Line(Names[j[2]])}
    BY <2>1, NamesOfJobs, Addr2LineRight, EmptySeq
  <2>3. output[j] = <<>> /\ pipe[j] = <<>>
    BY DEF FlowInv, FlowOK
  <2>4. left'[j] = u /\ output'[j] = <<>> /\ pipe'[j] = <<>> /\ child'[j] = "running"
    BY <1>2, <2>1, <2>3 DEF FlowInv, ChildType
  <2>5. /\ pipe' = [i \in Jobs |-> pipe'[i]] /\ left' = [i \in Jobs |-> left'[i]] /\ output' = [i \in Jobs |-> output'[i]]
        /\ \A i \in Jobs : i # j => output'[i] = output[i] /\ pipe'[i] = pipe[i] /\ left'[i] = left[i] /\ child'[i] = child[i]
    BY <1>2 DEF FlowInv, ChildType
  <2>6. <<>> \o (<<>> \o u) = u
    BY <2>2, ConcatEmptySeq
  <2>7. Flowing(j)' = u
    BY <2>4, <2>6 DEF Flowing
  <2>8. FlowOK(j)'
    BY <2>2, <2>4, <2>7, EmptySeq DEF FlowOK
  <2>9. QED
    BY <2>5, <2>8, FlowOfOne
<1>3. QED
  BY <1>1, <1>2 DEF Fork, childVars

LEMMA FlowNext ==
  ASSUME Inv, FlowInv, [Next]_vars
  PROVE  FlowInv'
<1>1. CallType /\ ChildType /\ JobInv
  BY TypeParts DEF Inv
<1>2. ASSUME NEW t \in Threads, InModule(t) PROVE FlowInv'
  <2>1. pc[t] \in HasJob
    BY <1>2 DEF InModule, MakePipe, Fork, CloseWriter, Read, ReadEnds, WaitPid, Parse, Done, HasJob, HasPipe
  <2>2. PICK j : j = <<t, job[t]>>
    OBVIOUS
  <2>3. j \in Jobs /\ JobOK(t, job[t]) /\ job[t] \in 1 .. Len(Names)
    BY <1>1, <2>1, <2>2, JobsArePairs DEF JobInv
  <2>4. CASE Fork(t, j)
    <3>1. pc[t] = "fork"
      BY <2>4 DEF Fork
    <3>2. child[j] = "none"
      BY <2>2, <2>3, <3>1 DEF JobOK
    <3>3. QED
      BY <1>1, <2>3, <2>4, <3>2, ForkFlow
  <2>5. CASE Read(t, j)
    <3>1. pc[t] = "read"
      BY <2>5 DEF Read
    <3>2. child[j] # "none"
      BY <2>2, <2>3, <3>1 DEF JobOK
    <3>3. QED
      BY <1>1, <2>3, <2>5, <3>2, ReadFlow
  <2>6. CASE MakePipe(t, j) \/ CloseWriter(t, j) \/ ReadEnds(t, j) \/ Parse(t, j) \/ Done(t, j)
    <3>1. UNCHANGED <<output, pipe, left, child>>
      BY <2>6 DEF MakePipe, CloseWriter, ReadEnds, Parse, Done, pipeVars, childVars
    <3>2. QED
      BY <3>1, FlowStays
  <2>7. CASE WaitPid(t, j)
    <3>1. UNCHANGED <<output, pipe, left>> /\ \A i \in Jobs : child[i] # "none" => child'[i] # "none"
      BY <1>1, <2>7 DEF WaitPid, pipeVars, ChildType
    <3>2. QED
      BY <3>1, FlowStays
  <2>8. QED
    BY <1>2, <2>2, <2>4, <2>5, <2>6, <2>7 DEF InModule
<1>3. ASSUME NEW t \in Threads, Call(t) \/ ReadMaps(t) \/ NextModule(t) \/ Return(t) PROVE FlowInv'
  <2>1. UNCHANGED <<output, pipe, left, child>>
    BY <1>3 DEF Call, ReadMaps, NextModule, Return, pipeVars, childVars
  <2>2. QED
    BY <2>1, FlowStays
<1>4. ASSUME NEW j \in Jobs, ChildExits(j) PROVE FlowInv'
  <2>1. UNCHANGED <<output, pipe, left>> /\ \A i \in Jobs : child[i] # "none" => child'[i] # "none"
    BY <1>1, <1>4 DEF ChildExits, ChildType
  <2>2. QED
    BY <2>1, FlowStays
<1>5. ASSUME UNCHANGED vars PROVE FlowInv'
  <2>1. UNCHANGED <<output, pipe, left, child>>
    BY <1>5, SMTT(30) DEF vars, pipeVars, childVars
  <2>2. QED
    BY <2>1, FlowStays
<1>6. QED
  BY <1>1, <1>2, <1>3, <1>4, <1>5, ChildWritesFlow DEF Next, GetBacktraceSymbols, Child

-----------------------------------------------------------------------------
(***************************************************************************)
(* Parse gives an address of its job what was read at its place, and does  *)
(* not touch the others.                                                   *)
(***************************************************************************)
ShownRight(t, j, p) ==
  LET s == Indexes[Names[j[2]]]
  IN  (\A q \in 1 .. p - 1 : Len(Frames[Addresses[s[q]]]) = 1) =>
        symbols[t][s[p]] \in {None, Head(Frames[Addresses[s[p]]])}

LEMMA OwnSymbolsOf ==
  OwnSymbols <=> \A t \in Threads, j \in Jobs : j[1] = t /\ j \notin readFailed =>
                   \A p \in 1 .. Len(Indexes[Names[j[2]]]) : ShownRight(t, j, p)
<1>1. \A j \in Jobs : DOMAIN Indexes[Names[j[2]]] = 1 .. Len(Indexes[Names[j[2]]])
  BY NamesOfJobs, IndexesRight, LenProperties
<1>2. QED
  BY <1>1 DEF OwnSymbols, ShownRight

(* What was read so far is the beginning of what addr2line writes.         *)
LEMMA ReadIsRight ==
  ASSUME FlowInv, NEW j \in Jobs, NEW p \in 1 .. Len(output[j])
  PROVE  output[j][p] = Addr2Line(Names[j[2]])[p]
<1> DEFINE x == output[j]
           y == pipe[j] \o left[j]
<1>1. FlowOK(j)
  BY DEF FlowInv
<1>2. x \in Seq(SymbolsOf) /\ y \in Seq(SymbolsOf)
  BY <1>1, ConcatProperties DEF FlowOK
<1>3. x \o y \in {<<>>, Addr2Line(Names[j[2]])}
  BY <1>1 DEF FlowOK, Flowing
<1> HIDE DEF x, y
<1>4. /\ Len(x) \in Nat /\ Len(y) \in Nat /\ Len(x \o y) = Len(x) + Len(y)
      /\ \A i \in 1 .. Len(x) + Len(y) : (x \o y)[i] = IF i <= Len(x) THEN x[i] ELSE y[i - Len(x)]
  BY <1>2, ConcatProperties, LenProperties
<1>5. p \in 1 .. Len(x)
  BY DEF x
<1>6. x \o y # <<>> /\ (x \o y)[p] = x[p]
  BY <1>4, <1>5, EmptySeq
<1>7. QED
  BY <1>3, <1>6 DEF x

LEMMA ParseSymbols ==
  ASSUME FlowInv, SymbolsInv, NEW t \in Threads, NEW j \in Jobs, j[1] = t, Parse(t, j)
  PROVE  SymbolsInv'
<1> DEFINE indexes == Indexes[Names[j[2]]]
           IsGiven(i, text) == \E p \in DOMAIN text : p <= Len(indexes) /\ indexes[p] = i /\ text[p] # Unknown
           Given(i, text) == text[CHOOSE p \in DOMAIN text : p <= Len(indexes) /\ indexes[p] = i]
<1>1. PICK text :
        /\ text = output[j] \/ (j \in readFailed /\ output[j] # <<>> /\ text = Append(output[j], Garbage))
        /\ symbols' = [symbols EXCEPT ![t] =
             [i \in Index |-> IF @[i] = None /\ IsGiven(i, text) THEN Given(i, text) ELSE @[i]]]
  <2>1. PICK text \in {output[j]} \union (IF j \in readFailed /\ output[j] # <<>> THEN {Append(output[j], Garbage)} ELSE {}) :
          symbols' = [symbols EXCEPT ![t] =
            [i \in Index |-> IF @[i] = None /\ IsGiven(i, text) THEN Given(i, text) ELSE @[i]]]
    BY Zenon DEF Parse
  <2>2. text = output[j] \/ (j \in readFailed /\ output[j] # <<>> /\ text = Append(output[j], Garbage))
    BY <2>1, Zenon
  <2> HIDE DEF IsGiven, Given
  <2>3. QED
    BY <2>1, <2>2, Zenon
<1>2. UNCHANGED readFailed
  BY DEF Parse, failVars
<1>3. output[j] \in Seq(SymbolsOf)
  BY DEF FlowInv, FlowOK
<1>4. DOMAIN text = 1 .. Len(text) /\ Len(text) \in Nat
  <2>1. CASE text = output[j]
    BY <1>3, <2>1, LenProperties
  <2>2. CASE text = Append(output[j], Garbage)
    <3>1. output[j] \in Seq(SymbolsOf \union {Garbage}) /\ Garbage \in SymbolsOf \union {Garbage}
      BY <1>3, SeqMonotonic
    <3>2. text \in Seq(SymbolsOf \union {Garbage})
      BY <2>2, <3>1, AppendProperties
    <3>3. QED
      BY <3>2, LenProperties
  <2>3. QED
    BY <1>1, <2>1, <2>2
<1>5. /\ indexes \in Seq(Index) /\ Len(indexes) \in Nat
      /\ \A p, q \in 1 .. Len(indexes) : indexes[p] = indexes[q] => p = q
  BY NamesOfJobs, IndexesRight, LenProperties
<1>6. \A u \in Threads \ {t} : symbols'[u] = symbols[u]
  BY <1>1 DEF SymbolsInv
<1>7. \A i \in Index : symbols'[t][i] = IF symbols[t][i] = None /\ IsGiven(i, text) THEN Given(i, text) ELSE symbols[t][i]
  BY <1>1 DEF SymbolsInv
<1>8. symbols' = [u \in Threads |-> [i \in Index |-> symbols'[u][i]]]
  <2>1. \A u \in Threads : symbols'[u] = [i \in Index |-> symbols'[u][i]]
    <3>1. symbols'[t] = [i \in Index |-> symbols'[t][i]]
      BY <1>1 DEF SymbolsInv
    <3>2. \A u \in Threads \ {t} : symbols'[u] = [i \in Index |-> symbols'[u][i]]
      BY <1>6 DEF SymbolsInv
    <3>3. QED
      BY <3>1, <3>2
  <2>2. symbols' = [u \in Threads |-> symbols'[u]]
    BY <1>1 DEF SymbolsInv
  <2>3. QED
    BY <2>1, <2>2
<1>9. ASSUME NEW u \in Threads, NEW k \in Jobs, k[1] = u, k \notin readFailed,
             NEW p \in 1 .. Len(Indexes[Names[k[2]]])
      PROVE  ShownRight(u, k, p)'
  <2> DEFINE s == Indexes[Names[k[2]]]
             i == s[p]
  <2>1. ShownRight(u, k, p)
    BY <1>9, OwnSymbolsOf DEF SymbolsInv
  <2>2. i \in Index
    BY NamesOfJobs, IndexesRight, ElementOfSeq
  <2>3. CASE symbols'[u][i] = symbols[u][i]
    BY <2>1, <2>3 DEF ShownRight
  <2>4. CASE symbols'[u][i] # symbols[u][i]
    <3>1. u = t /\ IsGiven(i, text) /\ symbols'[u][i] = Given(i, text)
      BY <1>6, <1>7, <2>2, <2>4, SMTT(30)
    <3>2. PICK q \in 1 .. Len(text) : q <= Len(indexes) /\ indexes[q] = i
      BY <1>4, <3>1
    <3>3. q \in 1 .. Len(indexes)
      BY <1>4, <1>5, <3>2
    <3>4. k = j
      <4>1. Names[k[2]] = Names[j[2]]
        BY <3>2, <3>3, NamesOfJobs, NoAddressOfTwo
      <4>2. k[2] = j[2]
        BY <4>1, NamesOfJobs, NamesAssumption
      <4>3. QED
        BY <1>9, <3>1, <4>2 DEF Jobs
    <3>5. q = p /\ s = indexes
      BY <1>5, <3>2, <3>3, <3>4
    <3>6. \A r \in 1 .. Len(text) : r <= Len(indexes) /\ indexes[r] = i => r = p
      <4>1. ASSUME NEW r \in 1 .. Len(text), r <= Len(indexes), indexes[r] = i PROVE r = p
        <5>1. r \in 1 .. Len(indexes)
          BY <1>4, <1>5, <4>1
        <5>2. QED
          BY <1>5, <3>2, <3>3, <3>5, <4>1, <5>1
      <4>2. QED
        BY <4>1
    <3>7. Given(i, text) = text[p]
      BY <1>4, <3>2, <3>5, <3>6
    <3>8. text = output[j] /\ p \in 1 .. Len(output[j])
      BY <1>1, <1>9, <3>2, <3>4, <3>5, SMTT(30)
    <3>9. symbols'[u][i] = Addr2Line(Names[k[2]])[p]
      BY <3>1, <3>4, <3>7, <3>8, ReadIsRight, SMTT(30)
    <3>10. (\A r \in 1 .. p - 1 : Len(Frames[Addresses[s[r]]]) = 1) => symbols'[u][i] = Head(Frames[Addresses[i]])
      BY <3>9, NamesOfJobs, Addr2LineRight
    <3>11. QED
      BY <3>10, SMTT(30) DEF ShownRight
  <2>5. QED
    BY <2>3, <2>4
<1>10. OwnSymbols'
  <2>1. \A k \in Jobs : DOMAIN Indexes[Names[k[2]]] = 1 .. Len(Indexes[Names[k[2]]])
    BY NamesOfJobs, IndexesRight, LenProperties
  <2>2. QED
    BY <1>2, <1>9, <2>1 DEF OwnSymbols, ShownRight
<1>11. QED
  BY <1>8, <1>10 DEF SymbolsInv

LEMMA SymbolsStay ==
  ASSUME SymbolsInv, UNCHANGED symbols, readFailed \subseteq readFailed'
  PROVE  SymbolsInv'
BY DEF SymbolsInv, OwnSymbols

LEMMA SymbolsNext ==
  ASSUME Inv, FlowInv, SymbolsInv, [Next]_vars
  PROVE  SymbolsInv'
<1>1. ASSUME NEW t \in Threads, Parse(t, <<t, job[t]>>) PROVE SymbolsInv'
  <2>1. pc[t] \in HasJob
    BY <1>1 DEF Parse, HasJob, HasPipe
  <2>2. <<t, job[t]>> \in Jobs
    BY <2>1, JobsArePairs DEF Inv, JobInv
  <2>3. PICK j \in Jobs : j = <<t, job[t]>>
    BY <2>2
  <2>4. j[1] = t
    BY <2>3
  <2>5. QED
    BY <1>1, <2>3, <2>4, ParseSymbols
<1>2. ASSUME NEW t \in Threads, InModule(t), ~Parse(t, <<t, job[t]>>)
      PROVE  UNCHANGED symbols /\ readFailed \subseteq readFailed'
  BY <1>2 DEF InModule, MakePipe, Fork, CloseWriter, Read, ReadEnds, WaitPid, Done, callVars, failVars
<1>3. ASSUME NEW t \in Threads, Call(t) \/ ReadMaps(t) \/ NextModule(t) \/ Return(t)
      PROVE  UNCHANGED symbols /\ readFailed \subseteq readFailed'
  BY <1>3 DEF Call, ReadMaps, NextModule, Return, failVars
<1>4. ASSUME NEW j \in Jobs, Child(j) PROVE UNCHANGED symbols /\ readFailed \subseteq readFailed'
  BY <1>4 DEF Child, ChildWrites, ChildExits, callVars, failVars
<1>5. ASSUME UNCHANGED vars PROVE UNCHANGED symbols /\ readFailed \subseteq readFailed'
  BY <1>5 DEF vars, callVars, failVars
<1>6. QED
  BY <1>1, <1>2, <1>3, <1>4, <1>5, SymbolsStay DEF Next, GetBacktraceSymbols

LEMMA OwnInit == Init => OwnInv
<1> SUFFICES ASSUME Init PROVE OwnInv
  OBVIOUS
<1>1. Inv
  BY InvInit
<1>2. ASSUME NEW j \in Jobs PROVE FlowOK(j)
  <2>1. <<>> \in Seq(SymbolsOf) /\ <<>> \o (<<>> \o <<>>) = <<>>
    BY EmptySeq, ConcatEmptySeq
  <2>2. output[j] = <<>> /\ pipe[j] = <<>> /\ left[j] = <<>>
    BY DEF Init
  <2>3. QED
    BY <2>1, <2>2 DEF FlowOK, Flowing
<1>3. FlowInv
  BY <1>2 DEF FlowInv, Init
<1>4. ASSUME NEW t \in Threads, NEW j \in Jobs, NEW p \in 1 .. Len(Indexes[Names[j[2]]]) PROVE ShownRight(t, j, p)
  <2>1. Indexes[Names[j[2]]][p] \in Index
    BY NamesOfJobs, IndexesRight, ElementOfSeq
  <2>2. symbols[t][Indexes[Names[j[2]]][p]] = None
    BY <2>1 DEF Init
  <2>3. QED
    BY <2>2 DEF ShownRight
<1>5. SymbolsInv
  BY <1>4, OwnSymbolsOf DEF SymbolsInv, Init
<1>6. QED
  BY <1>1, <1>3, <1>5 DEF OwnInv

LEMMA OwnNext == OwnInv /\ [Next]_vars => OwnInv'
  BY InvNext, FlowNext, SymbolsNext DEF OwnInv

(***************************************************************************)
(* The symbol that is shown for an address is its own innermost frame, for *)
(* any map of the process, as long as nothing of a job was cut off by a    *)
(* failed read and no address before it in its module is an inlined call.  *)
(***************************************************************************)
THEOREM SymbolsAreOwn == Spec => []OwnSymbols
<1>1. Spec => []OwnInv
  BY OwnInit, OwnNext, PTL DEF Spec
<1>2. OwnInv => OwnSymbols
  BY DEF OwnInv, SymbolsInv
<1>3. QED
  BY <1>1, <1>2, PTL
=============================================================================
