----------------------------- MODULE Coroutine -----------------------------
(***************************************************************************)
(* A durable coroutine at run time: the code that compileFuncBody          *)
(* (src/compiler/compile.go) generates for every colored function, running *)
(* against the Context of src/unnamed/part_001 (Yield, Unwinding,          *)
(* MarshalAppend, Unmarshal) and the frame Stack it pushes to and pops.    *)
(*                                                                         *)
(* A program is a set of colored functions, each a straight-line body of   *)
(* statements: a side effect, a rewritten defer, a call of another colored *)
(* function, or a call of Yield.  The generated code keeps one frame per   *)
(* active call on the Stack; a Yield sets the top frame's Resume flag and  *)
(* panics with the unwind sentinel, every epilogue on the way up keeps its *)
(* frame, and the next call of Next re-enters the functions from the entry *)
(* point, each dispatching to the span its frame's IP names.               *)
(*                                                                         *)
(* The caller of the coroutine (Next, Send, Stop, MarshalAppend) and the   *)
(* process it runs in (a crash, a restart that Unmarshals the last saved   *)
(* stack) are the environment.                                             *)
(***************************************************************************)
EXTENDS Naturals, Sequences, SequencesExt

CONSTANTS
  Funcs,   \* the colored functions of the program
  Body,    \* Body[f]: the statements of f, records [op, arg]
  Entry,   \* the coroutine's entry point (Context.Entrypoint)
  Zero,    \* the zero value of the send and receive types
  SendValues  \* values the caller passes to Send

Ops == {"effect", "defer", "call", "yield"}

ASSUME /\ Entry \in Funcs
       /\ \A f \in Funcs : \A j \in DOMAIN Body[f] : Body[f][j].op \in Ops

VARIABLES
  frames,   \* Stack.Frames: the persisted call stack, one record per frame
  fp,       \* Stack frame pointer: frames pushed since Next began
  recv,     \* Context.recv: value passed to Yield, read by the caller
  send,     \* Context.send: value the caller passes back to Yield
  done,     \* Context.done
  stop,     \* Context.stop
  calls,    \* the goroutine's native calls during Next: [fn, fi, pc]
  mode,     \* "idle" | "run" | "unwind" | "panic" | "panicked" | "dead"
  snapshot, \* the Stack last written by MarshalAppend
  log,      \* history: observable events of this process lineage
  snapLog   \* history: log at the time of the snapshot

vars == <<frames, fp, recv, send, done, stop, calls, mode, snapshot, log, snapLog>>

-----------------------------------------------------------------------------
(* Events of the log.                                                      *)
Ev(kind, x) == [ev |-> kind, arg |-> x]

(* A function whose body is at most one expression statement is returned  *)
(* by compileFuncBody untransformed: no context, no frame, no epilogue.    *)
IsExpr(fn) ==
  \/ Body[fn] = <<>>
  \/ Len(Body[fn]) = 1 /\ Body[fn][1].op # "defer"

(* A call that may yield ends a dispatch span and begins the next one.     *)
MayYield(st) == st.op \in {"call", "yield"}

(* Fault: the span counted as the number of calls before k, off by one.  *)
SpanOfBefore(fn, k) == Cardinality({j \in 1..k : MayYield(Body[fn][j])})

(* Index of the span statement k of fn lies in; span 1 starts the body.    *)
SpanOf(fn, k) == 1 + Cardinality({j \in 1..k : MayYield(Body[fn][j])})

(* Dispatch: the statement at which span ip starts (ip 0: never entered). *)
StartOf(fn, ip) ==
  IF ip <= 1 THEN 1
  ELSE CHOOSE j \in DOMAIN Body[fn] : MayYield(Body[fn][j]) /\ SpanOf(fn, j) = ip

(* A frame as the zero value / the frame initializer leaves it.           *)
ZeroFrame(fn) == [fn |-> fn, ip |-> 0, resume |-> FALSE, defers |-> <<>>]

(* Stack.Top: the last frame of the stack.                                 *)
Top(fs) == fs[Len(fs)]

(* Context.Unwinding: len(c.Frames) > 0 && c.Top().Resume                  *)
Unwinding(fs) == Len(fs) > 0 /\ Top(fs).resume

Cur == calls[Len(calls)]
CurStmt == Body[Cur.fn][Cur.pc]

(* The calling activation moves past its call statement.                   *)
Advance(cs) == [cs EXCEPT ![Len(cs)].pc = @ + 1]

-----------------------------------------------------------------------------
(* Fault: *_f = frameInit run on every entry, not only when IP is 0.     *)
EnterAlwaysInit(fn, fs, base, cs) ==
  IF IsExpr(fn)
  THEN /\ frames' = fs
       /\ fp' = base
       /\ calls' = Append(cs, [fn |-> fn, fi |-> 0, pc |-> 1])
  ELSE LET fi == base + 1
           pushed == IF base < Len(fs) THEN fs ELSE Append(fs, ZeroFrame(fn))
       IN /\ frames' = [pushed EXCEPT ![fi] = ZeroFrame(fn)]
          /\ fp' = fi
          /\ calls' = Append(cs, [fn |-> fn, fi |-> fi, pc |-> 1])

(* Prologue of a compiled function: _c := LoadContext(); _f := Push(&_c.   *)
(* Stack); if _f.IP == 0 { *_f = frameInit }; then dispatch to span _f.IP. *)
(* Push reuses the frame at the frame pointer when one is there (a frame   *)
(* kept by an earlier unwind) and appends a zero frame otherwise.  An      *)
(* expression-bodied function is entered without any of this.              *)
Enter(fn, fs, base, cs) ==
  IF IsExpr(fn)
  THEN /\ frames' = fs
       /\ fp' = base
       /\ calls' = Append(cs, [fn |-> fn, fi |-> 0, pc |-> 1])
  ELSE LET fi == base + 1
           pushed == IF base < Len(fs) THEN fs ELSE Append(fs, ZeroFrame(fn))
           f == IF pushed[fi].ip = 0 THEN ZeroFrame(fn) ELSE pushed[fi]
       IN /\ frames' = [pushed EXCEPT ![fi] = f]
          /\ fp' = fi
          /\ calls' = Append(cs, [fn |-> fn, fi |-> fi, pc |-> StartOf(fn, f.ip)])

(* Fault: Pop that forgets to move the frame pointer down.               *)
EpilogueKeepsFp(a) ==
  IF a.fi = 0 \/ Unwinding(frames)
  THEN UNCHANGED <<frames, fp, log>>
  ELSE LET ds == frames[a.fi].defers
       IN /\ log' = log \o [i \in 1..Len(ds) |-> Ev("deferred", ds[Len(ds) + 1 - i])]
          /\ frames' = Front(frames)
          /\ UNCHANGED fp

(* Fault: the branch for functions with defers runs them but never pops.  *)
EpilogueNoPopWithDefers(a) ==
  IF a.fi = 0 \/ Unwinding(frames)
  THEN UNCHANGED <<frames, fp, log>>
  ELSE LET ds == frames[a.fi].defers
       IN /\ log' = log \o [i \in 1..Len(ds) |-> Ev("deferred", ds[Len(ds) + 1 - i])]
          /\ IF ds = <<>> THEN frames' = Front(frames) /\ fp' = fp - 1
                          ELSE UNCHANGED <<frames, fp>>

(* The deferred epilogue of a compiled function: if !_c.Unwinding(), run   *)
(* the frame's recorded defers in reverse order, then Pop.  Unwinding is   *)
(* read on the whole stack, so it is the top frame's Resume flag that      *)
(* decides, whichever frame this activation owns.                          *)
Epilogue(a) ==
  IF a.fi = 0 \/ Unwinding(frames)
  THEN UNCHANGED <<frames, fp, log>>
  ELSE LET ds == frames[a.fi].defers
       IN /\ log' = log \o [i \in 1..Len(ds) |-> Ev("deferred", ds[Len(ds) + 1 - i])]
          /\ frames' = Front(frames)
          /\ fp' = fp - 1

(* Fault: Next never records that the entry point has returned.          *)
FinishNeverDone(fs) ==
  /\ mode' = "idle"
  /\ done' = FALSE

(* Next returns to the caller: the coroutine is done unless it is          *)
(* suspended, i.e. unless the stack is left unwinding.                     *)
Finish(fs) ==
  /\ mode' = "idle"
  /\ done' = ~Unwinding(fs)

-----------------------------------------------------------------------------
(* A statement with a side effect the caller can observe.                  *)
StepEffect ==
  /\ mode = "run"
  /\ Cur.pc <= Len(Body[Cur.fn])
  /\ CurStmt.op = "effect"
  /\ log' = Append(log, Ev("effect", CurStmt.arg))
  /\ calls' = Advance(calls)
  /\ UNCHANGED <<frames, fp, recv, send, done, stop, mode, snapshot, snapLog>>

(* defer f() rewritten to _defers = append(_defers, f), a frame field.     *)
StepDefer ==
  /\ mode = "run"
  /\ Cur.pc <= Len(Body[Cur.fn])
  /\ CurStmt.op = "defer"
  /\ frames' = [frames EXCEPT ![Cur.fi].defers = Append(@, CurStmt.arg)]
  /\ calls' = Advance(calls)
  /\ UNCHANGED <<fp, recv, send, done, stop, mode, snapshot, snapLog, log>>

(* A call that may yield: _f.IP = span; then the callee's prologue.        *)
StepCall ==
  /\ mode = "run"
  /\ Cur.pc <= Len(Body[Cur.fn])
  /\ CurStmt.op = "call"
  /\ LET fs == IF Cur.fi = 0 THEN frames
               ELSE [frames EXCEPT ![Cur.fi].ip = SpanOf(Cur.fn, Cur.pc)]
     IN Enter(CurStmt.arg, fs, fp, calls)
  /\ UNCHANGED <<recv, send, done, stop, mode, snapshot, snapLog, log>>

(* _f.IP = span; Context.Yield(value).  The first check panics on a       *)
(* stopped coroutine.  A top frame flagged Resume means this Yield is      *)
(* being re-executed by Next: clear the flag and return c.send (the second *)
(* stop check on that path cannot fire, stop was just found FALSE).        *)
(* Otherwise set Resume, clear send, store recv and panic(unwind{}).  Top  *)
(* with no frame at all is an index out of range.                          *)
StepYield ==
  /\ mode = "run"
  /\ Cur.pc <= Len(Body[Cur.fn])
  /\ CurStmt.op = "yield"
  /\ LET fs == IF Cur.fi = 0 THEN frames
               ELSE [frames EXCEPT ![Cur.fi].ip = SpanOf(Cur.fn, Cur.pc)]
         t == Len(fs)
     IN \/ /\ stop \/ t = 0
           /\ frames' = fs
           /\ mode' = "panic"
           /\ UNCHANGED <<recv, send, calls, log>>
        \/ /\ ~stop /\ t > 0
           /\ fs[t].resume
           /\ frames' = [fs EXCEPT ![t].resume = FALSE]
           /\ log' = Append(log, Ev("resume", CurStmt.arg))
           /\ calls' = Advance(calls)
           /\ UNCHANGED <<recv, send, mode>>
        \/ /\ ~stop /\ t > 0
           /\ ~fs[t].resume
           /\ frames' = [fs EXCEPT ![t].resume = TRUE]
           /\ send' = Zero
           /\ recv' = CurStmt.arg
           /\ log' = Append(log, Ev("yield", CurStmt.arg))
           /\ mode' = "unwind"
           /\ UNCHANGED calls
  /\ UNCHANGED <<fp, done, stop, snapshot, snapLog>>

(* The function body ends: the epilogue runs, control returns to the      *)
(* caller past its call statement, or out of Next when it was the entry.   *)
StepReturn ==
  /\ mode = "run"
  /\ Cur.pc > Len(Body[Cur.fn])
  /\ Epilogue(Cur)
  /\ IF Len(calls) = 1
     THEN /\ calls' = <<>>
          /\ Finish(frames')
     ELSE /\ calls' = Advance(Front(calls))
          /\ UNCHANGED <<mode, done>>
  /\ UNCHANGED <<recv, send, stop, snapshot, snapLog>>

(* A panic propagates through one activation: its deferred epilogue runs.  *)
(* Next recovers the unwind sentinel and returns; any other panic is       *)
(* re-raised and ends the process.                                         *)
StepUnwind ==
  /\ mode \in {"unwind", "panic"}
  /\ Epilogue(Cur)
  /\ calls' = Front(calls)
  /\ IF Len(calls) = 1
     THEN IF mode = "unwind" THEN Finish(frames')
          ELSE mode' = "panicked" /\ UNCHANGED done
     ELSE UNCHANGED <<mode, done>>
  /\ UNCHANGED <<recv, send, stop, snapshot, snapLog>>

Run == StepEffect \/ StepDefer \/ StepCall \/ StepYield \/ StepReturn \/ StepUnwind

-----------------------------------------------------------------------------
(* The caller and the process.                                             *)

(* Coroutine.Next: start or resume the entry point with the frame pointer  *)
(* back at the bottom of the stack.                                        *)
CoroutineNext ==
  /\ mode = "idle"
  /\ ~done
  /\ Enter(Entry, frames, 0, <<>>)
  /\ mode' = "run"
  /\ UNCHANGED <<recv, send, done, stop, snapshot, log, snapLog>>

(* Coroutine.Send: the value the next resumed Yield returns.               *)
Send ==
  /\ mode = "idle"
  /\ \E v \in SendValues : send' = v
  /\ UNCHANGED <<frames, fp, recv, done, stop, calls, mode, snapshot, log, snapLog>>

(* Coroutine.Stop.                                                         *)
Stop ==
  /\ mode = "idle"
  /\ ~stop
  /\ stop' = TRUE
  /\ UNCHANGED <<frames, fp, recv, send, done, calls, mode, snapshot, log, snapLog>>

(* Fault: the caller also saves a coroutine that has completed.          *)
MarshalAppendWhenDone ==
  /\ mode = "idle"
  /\ snapshot' = frames
  /\ snapLog' = log
  /\ UNCHANGED <<frames, fp, recv, send, done, stop, calls, mode, log>>

(* Context.MarshalAppend: only the Stack is serialized.  The code itself  *)
(* has no guard; the caller saves a coroutine between calls of Next and    *)
(* not once it is done (an empty saved stack reads back as "not begun").   *)
MarshalAppend ==
  /\ mode = "idle"
  /\ ~done
  /\ snapshot' = frames
  /\ snapLog' = log
  /\ UNCHANGED <<frames, fp, recv, send, done, stop, calls, mode, log>>

(* The process dies at any point.                                          *)
Crash ==
  /\ mode # "dead"
  /\ mode' = "dead"
  /\ UNCHANGED <<frames, fp, recv, send, done, stop, calls, snapshot, log, snapLog>>

(* A new process: a fresh Context into which Context.Unmarshal reads the   *)
(* saved Stack; recv, send, done and stop are not part of the bytes.       *)
Unmarshal ==
  /\ mode \in {"dead", "panicked"}
  /\ frames' = snapshot
  /\ fp' = 0
  /\ recv' = Zero
  /\ send' = Zero
  /\ done' = FALSE
  /\ stop' = FALSE
  /\ calls' = <<>>
  /\ mode' = "idle"
  /\ log' = snapLog
  /\ UNCHANGED <<snapshot, snapLog>>

Init ==
  /\ frames = <<>>
  /\ fp = 0
  /\ recv = Zero
  /\ send = Zero
  /\ done = FALSE
  /\ stop = FALSE
  /\ calls = <<>>
  /\ mode = "idle"
  /\ snapshot = <<>>
  /\ log = <<>>
  /\ snapLog = <<>>

Next ==
  \/ Run
  \/ CoroutineNext
  \/ Send
  \/ Stop
  \/ MarshalAppend
  \/ Crash
  \/ Unmarshal

(* The goroutine inside Next runs until Next returns; the caller keeps     *)
(* calling Next while the coroutine is not done (for c.Next() {...}); a    *)
(* dead durable process is restarted from its saved stack.                 *)
Fairness ==
  /\ WF_vars(Run)
  /\ WF_vars(CoroutineNext)
  /\ WF_vars(Unmarshal)

Spec == Init /\ [][Next]_vars /\ Fairness

-----------------------------------------------------------------------------
(* The reference run: the program executed as ordinary Go, with a native   *)
(* stack only.  Exec(fn, j, ds) is the sequence of events of fn from its   *)
(* j-th statement on, ds the defers recorded so far; a Yield shows as the  *)
(* suspension and, later, the resumption.                                  *)
RECURSIVE Exec(_, _, _)
Exec(fn, j, ds) ==
  IF j > Len(Body[fn])
  THEN [i \in 1..Len(ds) |-> Ev("deferred", ds[Len(ds) + 1 - i])]
  ELSE LET st == Body[fn][j] IN
       CASE st.op = "effect" -> <<Ev("effect", st.arg)>> \o Exec(fn, j + 1, ds)
         [] st.op = "defer"  -> Exec(fn, j + 1, Append(ds, st.arg))
         [] st.op = "call"   -> Exec(st.arg, 1, <<>>) \o Exec(fn, j + 1, ds)
         [] st.op = "yield"  -> <<Ev("yield", st.arg), Ev("resume", st.arg)>>
                                  \o Exec(fn, j + 1, ds)

RefTrace == Exec(Entry, 1, <<>>)

(* The statement a persisted frame resumes at yields: it is the Yield      *)
(* itself, or a call of an expression-bodied function that yields.         *)
RECURSIVE Yields(_)
Yields(st) ==
  \/ st.op = "yield"
  \/ /\ st.op = "call"
     /\ IsExpr(st.arg)
     /\ Body[st.arg] # <<>>
     /\ Yields(Body[st.arg][1])

-----------------------------------------------------------------------------
(* Every argument a statement of the program names.                       *)
Args == UNION {{Body[f][j].arg : j \in DOMAIN Body[f]} : f \in Funcs}

Frame == [fn : Funcs, ip : Nat, resume : BOOLEAN, defers : Seq(STRING)]

TypeOK ==
  /\ frames \in Seq(Frame)
  /\ snapshot \in Seq(Frame)
  /\ fp \in 0..Len(frames)
  /\ calls \in Seq([fn : Funcs, fi : Nat, pc : Nat])
  /\ {recv, send} \subseteq SendValues \cup {Zero} \cup Args
  /\ done \in BOOLEAN /\ stop \in BOOLEAN
  /\ mode \in {"idle", "run", "unwind", "panic", "panicked", "dead"}

(* Exactly once, in program order: whatever the caller and the process do *)
(* (suspend, resume, marshal, crash and unmarshal), every side effect,     *)
(* suspension, resumption and deferred call of the current lineage is the  *)
(* next one of the reference run, none repeated or skipped; and when Next  *)
(* reports the coroutine done, all of them have happened.  (A stopped      *)
(* coroutine leaves the reference run to tear down: StopTearsDown.)  This  *)
(* is what IP dispatch, frame reuse in Push, the Resume flag in Yield and  *)
(* the Unwinding test of the epilogue achieve together.                    *)
ExactlyOnce ==
  /\ ~stop => IsPrefix(log, RefTrace)
  /\ (done /\ mode = "idle") => log = RefTrace

(* A stack left by an unwind, and every stack MarshalAppend saves, can be  *)
(* resumed: it holds the frames of a chain of calls from the entry point,  *)
(* each frame's IP names the span that starts with the call of the next    *)
(* frame's function, and only the last frame, whose span starts with the   *)
(* Yield, is flagged Resume (spec 8: frames equal the call depth at the    *)
(* yield point).                                                           *)
Resumable(fs) ==
  fs # <<>> =>
    /\ fs[1].fn = Entry
    /\ \A i \in 1..Len(fs) - 1 :
         /\ ~fs[i].resume
         /\ Body[fs[i].fn][StartOf(fs[i].fn, fs[i].ip)] = [op |-> "call", arg |-> fs[i + 1].fn]
    /\ Top(fs).resume
    /\ Yields(Body[Top(fs).fn][StartOf(Top(fs).fn, Top(fs).ip)])

SuspendedStackResumable ==
  /\ Resumable(snapshot)
  /\ (mode = "idle" /\ ~done) => Resumable(frames)

(* A compiled function that returns without unwinding leaves the stack as *)
(* it found it: its epilogue pops exactly the frame its prologue pushed    *)
(* (spec 8, the epilogue invariant).                                       *)
EpilogueBalance ==
  [][ StepReturn /\ Cur.fi > 0 => Len(frames') = Cur.fi - 1 ]_vars

(* With a caller that keeps calling Next and a process that is restarted   *)
(* after a crash, the coroutine runs to completion, unless it is stopped   *)
(* or the process never stops crashing.                                    *)
Terminates ==
  <>(done /\ mode = "idle") \/ <>stop \/ []<>(mode = "dead")

(* Spec 5 and S5: resuming a stopped coroutine tears its stack down, the  *)
(* epilogues popping every frame and running its defers, and Next returns  *)
(* to the same caller with the coroutine still stopped; only the process   *)
(* dying first releases it.  Yield's second stop check (after clearing     *)
(* Resume) would do this; its first check panics before it is reached.     *)
StopTearsDown ==
  (stop /\ mode = "run") ~> ((stop /\ mode = "idle" /\ frames = <<>>) \/ mode = "dead")

(* The only panic Next may raise is the one Yield raises on a stopped     *)
(* coroutine: the unwind sentinel never escapes, and the generated code    *)
(* never reaches a run-time error.                                         *)
NoPanicUnlessStopped ==
  mode \in {"panic", "panicked"} => stop

-----------------------------------------------------------------------------
(* Refinement.  The events of the lineage that follow the reference run:  *)
(* the teardown of a stopped coroutine is not part of it and maps to       *)
(* stuttering.                                                             *)
Committed == LongestCommonPrefix({log, RefTrace})

Durable == INSTANCE DurableRun WITH Trace <- RefTrace, alog <- Committed, ackpt <- snapLog

(* The runtime and the generated code implement the durable-run promise:  *)
(* every step of the caller, the coroutine and the process is a step of    *)
(* DurableRun on the committed events and the events saved with the stack. *)
RefinesDurableRun == Durable!Spec

=============================================================================
