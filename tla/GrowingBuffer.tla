---------------------------- MODULE GrowingBuffer ----------------------------
(***************************************************************************)
(* Functions that store something of unknown length in the caller's buffer *)
(* or in one on the heap that grows until the answer is known to be whole: *)
(* get_pid_exe (core/linux and, as get_handle_exe, core/win/processes.c)   *)
(* and the Windows process_get_pids_C, which double it; and vformatmsg_len *)
(* (core/strutils.c).  The last two only have their own buffer.            *)
(*                                                                         *)
(* What the system is asked about changes meanwhile: a process runs        *)
(* another program or ends, processes come and go.  What is formatted does *)
(* not.  Lengths and sizes stand for bytes.                                *)
(***************************************************************************)
EXTENDS Integers

CONSTANTS
  Apis,       \* how the system or vsnprintf may answer: see Answer, Used
  Lengths,    \* the lengths a name (list, message) can have
  FixedSizes, \* the sizes of buffers callers pass
  FirstSize,  \* the first size of the heap buffer
  MaxSize     \* bound: realloc fails above it

ASSUME BufferAssumption ==
  /\ Apis \subseteq {"readlink", "query", "module", "enum", "c99", "old"}
  /\ Lengths \subseteq Nat \ {0} /\ FixedSizes \subseteq Nat \ {0}
  /\ FirstSize \in Nat \ {0} /\ MaxSize \in Nat

VARIABLES
  api,        \* the function asked; it depends on the system
  length,     \* the length of the name; 0: the process is gone, or the
              \* message cannot be encoded
  pc,         \* "idle", "alloc", "ask", "returned", or "fault"
  buffer,     \* "caller", "heap" or "none": what result points to
  size,       \* its size
  stored,     \* how much of it the last answer filled
  terminated, \* a NUL follows what was stored
  blocks,     \* the sizes of the heap blocks result points to: none or one
  lost,       \* history: this call lost a heap block
  seen,       \* history: length when the last answer was given
  noMemory    \* history: a realloc of this call failed

\* What RingBuffer has a name for too is prefixed: BufferProofs extends both.
gbvars == <<api, length, pc, buffer, size, stored, terminated, blocks, lost, seen, noMemory>>

\* The functions behind get_handle_exe on Windows.
Windows == {"query", "module"}
\* The two kinds of vsnprintf that vformatmsg_len is written for.
Formats == {"c99", "old"}

GBInit == /\ api \in Apis /\ length \in Lengths \cup {0}
          /\ pc = "idle" /\ buffer = "none" /\ size = 0 /\ stored = 0
          /\ terminated = FALSE /\ blocks = {} /\ lost = FALSE /\ seen = 0 /\ noMemory = FALSE

\* The environment: exec, a rename, the end of the process.
Change == \E n \in Lengths \cup {0} :
            /\ api \in Formats => pc = "idle"
            /\ length' = n
            /\ UNCHANGED <<api, pc, buffer, size, stored, terminated, blocks, lost, seen, noMemory>>

\* get_pid_exe(pid, buffer, size), with a buffer or without.
CallFixed(n) ==
  /\ pc = "idle" /\ api \notin {"enum"} \cup Formats
  /\ pc' = "ask" /\ buffer' = "caller" /\ size' = n
  /\ stored' = 0 /\ terminated' = FALSE /\ seen' = 0 /\ noMemory' = FALSE
  /\ lost' = FALSE /\ UNCHANGED <<api, length, blocks>>

CallDynamic ==
  /\ pc = "idle"
  /\ pc' = "alloc" /\ buffer' = "none" /\ size' = FirstSize
  /\ stored' = 0 /\ terminated' = FALSE /\ seen' = 0 /\ noMemory' = FALSE
  /\ lost' = FALSE /\ UNCHANGED <<api, length, blocks>>

\* result = realloc(result, size): when it fails, result is overwritten and
\* the old block has no pointer left.  vformatmsg_len does not test it.
Alloc ==
  /\ pc = "alloc"
  /\ \/ /\ size <= MaxSize
        /\ pc' = "ask" /\ buffer' = "heap" /\ blocks' = {size}
        /\ UNCHANGED <<lost, noMemory>>
     \/ /\ pc' = IF api \in Formats THEN "ask" ELSE "returned"
        /\ buffer' = "none" /\ noMemory' = TRUE
        /\ lost' = (blocks # {}) /\ blocks' = {}
  /\ UNCHANGED <<api, length, size, stored, terminated, seen>>

\* What the system stores of a name of length n in a buffer of size s; -1: it
\* reports an error.  readlink, GetModuleFileNameEx and EnumProcesses truncate,
\* QueryFullProcessImageName refuses.
Answer(n, s) == CASE n = 0      -> -1
                  [] n < s      -> n
                  [] OTHER      -> IF api = "query" THEN -1 ELSE s

\* Mutant of Whole: an answer that fills the buffer is taken for whole.
WholeFull(rc, s) == rc <= s
\* An answer is known to be whole when the buffer had room for more.
Whole(rc, s) == rc < s

\* Mutant of Fail: the block is not freed.
FailLeaks == /\ pc' = "returned" /\ buffer' = "none" /\ blocks' = {}
             /\ lost' = (blocks # {})
             /\ UNCHANGED <<size, stored, terminated>>
\* The system reports an error: free(result) and return NULL.
Fail == /\ pc' = "returned" /\ buffer' = "none" /\ blocks' = {}
        /\ UNCHANGED <<size, stored, terminated, lost>>

Finish(rc) == /\ pc' = "returned" /\ stored' = rc
              /\ terminated' = (rc < size \/ api \in Windows)
              /\ UNCHANGED <<size, buffer, blocks, lost>>

\* Mutant of Retry: there is no second attempt.
RetryNever(rc) == Fail
Retry(rc) == /\ pc' = "alloc" /\ stored' = rc /\ size' = 2 * size
             /\ UNCHANGED <<terminated, buffer, blocks, lost>>

Ask ==
  /\ pc = "ask" /\ api \notin Formats /\ seen' = length
  /\ LET rc == Answer(length, size)
     IN \/ rc = -1 /\ Fail
        \/ rc >= 0 /\ (buffer = "caller" \/ Whole(rc, size)) /\ Finish(rc)
        \/ rc >= 0 /\ buffer = "heap" /\ ~Whole(rc, size) /\ Retry(rc)
  /\ UNCHANGED <<api, length, noMemory>>

\* What vsnprintf returns for a message of length n and a buffer of size s: the
\* length, or before C99 -1 when it does not fit (it may leave out the NUL).
Used(n, s) == IF n = 0 \/ (api = "old" /\ n > s) THEN -1 ELSE n

\* Mutant of NextSize: the required length leaves no room for the NUL.
NextSizeExact(used) == IF used < 0 THEN size + FirstSize ELSE used
NextSize(used) == IF used < 0 THEN size + FirstSize ELSE used + 1

\* One attempt of vformatmsg_len; without a buffer it writes to NULL.
Format ==
  /\ pc = "ask" /\ api \in Formats /\ seen' = length
  /\ LET used == Used(length, size)
     IN \/ /\ buffer = "none" /\ pc' = "fault"
           /\ UNCHANGED <<size, stored, terminated, buffer, blocks, lost>>
        \/ buffer = "heap" /\ 0 <= used /\ used < size /\ Finish(used)
        \/ /\ buffer = "heap" /\ ~(0 <= used /\ used < size)
           /\ pc' = "alloc" /\ size' = NextSize(used)
           /\ UNCHANGED <<stored, terminated, buffer, blocks, lost>>
  /\ UNCHANGED <<api, length, noMemory>>

\* The caller is done with the result.  processes.h: it calls free() if it
\* passed no buffer.
Dispose ==
  /\ pc = "returned"
  /\ pc' = "idle" /\ buffer' = "none" /\ blocks' = {}
  /\ UNCHANGED <<api, length, size, stored, terminated, lost, seen, noMemory>>

\* The Windows process_get_module_name_C passes a buffer on its stack and frees
\* the result.
DisposeBinding ==
  /\ pc = "returned" /\ buffer = "caller" /\ api \in Windows
  /\ pc' = "fault"
  /\ UNCHANGED <<api, length, buffer, size, stored, terminated, blocks, lost, seen, noMemory>>

GBNext == Change \/ (\E n \in FixedSizes : CallFixed(n)) \/ CallDynamic
          \/ Alloc \/ Ask \/ Format \/ Dispose \/ DisposeBinding

GBSpec == GBInit /\ [][GBNext]_gbvars

\* A call that has begun goes on.
GBFairSpec == GBSpec /\ WF_gbvars(Alloc) /\ WF_gbvars(Ask) /\ WF_gbvars(Format)

(***************************************************************************)
(* Properties                                                              *)
(***************************************************************************)
\* Types, and that result points to a block exactly when there is one.
GBTypeOK ==
  /\ api \in Apis /\ length \in Lengths \cup {0} /\ seen \in Lengths \cup {0}
  /\ pc \in {"idle", "alloc", "ask", "returned", "fault"}
  /\ buffer \in {"caller", "heap", "none"}
  /\ size \in Nat /\ stored \in 0 .. size
  /\ terminated \in BOOLEAN /\ lost \in BOOLEAN /\ noMemory \in BOOLEAN
  /\ blocks \subseteq 1 .. MaxSize /\ (buffer = "heap" <=> blocks # {})

\* A result on the heap is whole: it is what the system had when it was last
\* asked, however often that changed between the attempts, and a NUL fits.
HeapResultWhole ==
  pc = "returned" /\ buffer = "heap" => stored = seen /\ terminated

\* The heap block is the size the system is told, at every attempt.
AskedWithinBlock == pc = "ask" /\ buffer = "heap" => blocks = {size}

\* A block is lost only by a failed realloc: not when the process ends between
\* two attempts, nor when the result is given back.
LostByRealloc == lost => noMemory

\* Both, whatever changes and fails between the attempts.
BlocksSound == AskedWithinBlock /\ LostByRealloc

\* processes.h, get_pid_exe: "If an error occurs, the function returns NULL".
\* A call without a buffer fails only if the process is gone or memory is, or,
\* with QueryFullProcessImageName, if the name does not fit the first buffer.
\* vformatmsg_len never fails: without memory it writes to NULL.  Otherwise
\* only the Windows binding goes wrong, which frees its own array.
FailsForCause ==
  /\ pc = "returned" /\ buffer = "none" =>
       /\ api \notin Formats
       /\ seen = 0 \/ noMemory \/ (api = "query" /\ seen >= size)
  /\ pc = "fault" => IF api \in Formats THEN noMemory ELSE buffer = "caller" /\ api \in Windows

\* Every call returns: the doubling ends although the length keeps changing.
CallsReturn == (pc \in {"alloc", "ask"}) ~> (pc \in {"returned", "fault"})
=============================================================================
