# TLA+ models of the durable coroutine compiler and runtime

This directory holds TLA+ models of the Go sources under `src/`, together with the TLC configurations that check them.

The system turns ordinary Go functions into *durable coroutines*:

- functions that can yield a value;
- whose suspended state (a stack of frames) can be serialised to bytes;
- and which can resume in another process from those bytes.

`spec.md` describes the whole system. `PROJECT.json` lists every component, run, mutant, finding and hazard, and maps every modelled definition to the source lines it translates.

## The system and its parts

| Part | Source | What it does |
|---|---|---|
| Compiler pipeline | `src/compiler/compile.go` 1-452 | Loads packages, checks vendoring, and writes a `_durable` copy of each package in which every *colored* function (one that may reach a yield) is compiled by `compileFuncBody`. |
| Generated function code | `compile.go` 453-682 (`compileFuncBody`, `isExpr`) | Each compiled function does four things. Its **prologue** runs `LoadContext`, then `Push` of a frame, then `frameInit` when `IP == 0`. Its **defers** become `_defers = append(_defers, f)` in the frame. Its **epilogue** is deferred and, unless `Unwinding()`, runs the recorded defers in reverse and `Pop`s. It **dispatches** to the span its frame's `IP` names. |
| Coroutine context | `src/unnamed/part_001` 1-80 | `Yield`: on first execution, set the top frame's `Resume`, store the value and panic with the unwind sentinel; on re-execution during resume, clear `Resume` and return the sent value. `Unwinding`, `MarshalAppend` (serialises only the Stack) and `Unmarshal`. |
| Desugarer | `part_001` 81-444 | Rewrites a function body before compilation: it hoists initialisers, lowers `range`, gives every loop and switch a generated label that breaks and continues name, and elides unused labels. |
| Type registry | `src/unnamed/part_000` | `Register` / `registerSerde` / `typemap.attach` give each custom-serialised type a stable id (its position in `custom`). `doublemap` is a map kept with its inverse. |
| Serde generator CLI | `compile.go` 738-1225 | `serde -type T` finds `T`'s definition and writes `<file>_serde.go`. It holds a serializer and a deserializer for every slice and struct type reachable from `T`. |
| Local-storage test | `compile.go` 683-737 | A unit test. |

Not under `src/`, and therefore modelled from `spec.md` where they are needed:

- the Stack (`Push`, `Pop`, `Top`, frame pointer);
- `Coroutine.Next`, `Send` and `Stop`;
- dispatch spans (`compileDispatch`, `trackDispatchSpans`).

### How the parts interact at run time

1. The caller calls `Next`. `Next` resets the frame pointer and calls the entry point.
2. Each compiled function `Push`es a frame. A fresh frame is appended; a frame kept by an earlier unwind is re-used.
3. Before each call that may yield, the function stores the span number in its frame's `IP`.
4. `Yield` flags the top frame `Resume` and panics.
5. Every epilogue on the way up sees `Unwinding()` and keeps its frame. `Next` recovers the panic and returns.
6. The caller may `MarshalAppend` the stack, and the process may die.
7. A new process `Unmarshal`s the stack and calls `Next`. The functions re-enter, each dispatching to its saved span.
8. The re-executed `Yield` finds `Resume` set, clears it and returns the value passed to `Send`.

## Modules

### `Coroutine` (with `MC_Coroutine`)

The generated code running against the Context.

**Constants.** A program is `Funcs` with `Body[f]`, a sequence of statements `[op, arg]`:

- `effect`: an observable side effect, an expression statement;
- `defer`;
- `call` of another colored function;
- `yield`.

**State.**

| Variable | Meaning |
|---|---|
| `frames` | `Stack.Frames`: `fn`, `ip`, `resume` and `defers` |
| `fp` | the frame pointer |
| `recv`, `send`, `done`, `stop` | the Context's fields |
| `calls` | the goroutine's native activations during one `Next` |
| `mode` | `idle`, `run`, `unwind` (an unwind panic in flight), `panic` (another panic in flight), `panicked`, `dead` (process crashed) |
| `snapshot` | the last saved stack |
| `log`, `snapLog` | history variables: the effects observed and the log at the time of the snapshot |

**Actions.**

| Action | Models |
|---|---|
| `StepEffect` | an effect statement |
| `StepDefer` | the defer rewrite (`compile.go` 469-490) |
| `StepCall` | `ip = span` and the callee's prologue, `Enter`: `compile.go` 496-581, including the `isExpr` early return |
| `StepYield` | `Context.Yield`, all three paths in the code's order |
| `StepReturn` | the function's end, running its `Epilogue` (`compile.go` 583-628) |
| `StepUnwind` | a panic passing one activation, running its epilogue |
| `CoroutineNext`, `Send`, `Stop` | the caller |
| `MarshalAppend` | saving the stack |
| `Crash` | the process dying at any point |
| `Unmarshal` | a new process reading the saved stack |

**Abstract specification: `DurableRun`.** It promises that the committed effects grow along one reference run (`Progress`), that a checkpoint is taken only at a suspension (`Checkpoint`), and that a restore goes back to the last checkpoint (`Rollback`). `Coroutine` maps onto it as follows:

- `alog` is the longest common prefix of `log` and the reference run;
- `ackpt` is `snapLog`;
- the reference run `RefTrace` is a recursive operator (`Exec`) that runs the program as plain Go would, with a yield followed by a resume.

**Bounds.** `MC_Coroutine` has four functions:

- `main` calls `f` then `g`, with effects around them;
- `f` has two defers and two yields, separated by an effect;
- `g` calls `h`;
- `h` is a single `Yield` call, an expression body.

This covers two yields in one frame, a yield two frames deep, a frame kept and re-used, defers run in reverse, and an expression-bodied callee. There is one send value, and stop, save, crash and restore may come at any point. The model reaches 761 states. The liveness run uses `VIEW ControlView`, which drops the history variables so that re-executions after restores close into cycles.

**Fairness.** The code runs a `Next` to its end once it is called, so `Run` is weakly fair. The liveness property assumes a caller that keeps calling `Next` (WF `CoroutineNext`) and a process that is eventually restarted after a crash (WF `Unmarshal`). `Send`, `Stop`, `MarshalAppend` and `Crash` are unfair: they are the environment's choice. `Terminates` allows a run that crashes for ever.

### `Registry` (with `MC_Registry`)

- `custom` and `serdes` of `typemap`.
- `Register(t, ser, des)` models `Register` → `registerSerde` → `attach` in one atomic step; registration is sequential at start-up.
- Inputs are two types and two functions, plus a nil function. Every type can be registered repeatedly, so re-registration and nil callbacks both occur.

### `RegistryPair` (with `MC_RegistryPair`)

A coroutine saved in one process is resumed in another. `RegistryPair` composes two instances of `Registry`, `W!` for the writer process and `R!` for the reader, with the variables renamed.

| Action | Models |
|---|---|
| `WInit`, `RInit` | the next `Register` call of the program's init, in the program's order (`Program`) |
| `WOverride`, `ROverride` | a later `Register` of a type already registered, which spec 3 allows |
| `Save` | `Serialize` of a value of a registered type, writing its id first (spec 4.1; the cursors are not under `src/`) |
| `Load` | `Deserialize` of the next value, looking the id up in the reader's `custom` (`Lookup`) |

`RoundTripPreservesType` states that every loaded value has the type it was saved with. The only exception is a load made before the reader's init registered that type, which fails instead. Both processes run `<<T1, T2>>`, and re-registrations and up to two saves may come at any point, so the run has 63,149 states. The property fails when `attach`'s id assignment is broken: with `IdsArePositions` left out, the `AttachAlwaysNewId` mutant violates it. It also fails when the reader registers in another order. TLC reports that case when `RInit` walks `Program` backwards; it is the hazard at `part_000` line 99, and no run keeps it.

### `Desugar` (with `MC_Desugar`)

The pass is a recursive operator `D` over a small statement syntax. One operator models each `case` of `desugarer.desugar`: `DIf`, `DFor`, `DRange`, `DSwitch`, `DBranch`, plus `DList`. `NewVar`, `NewLabel`, `AddUserLabel` and `UseLabel` thread the desugarer's own state (its counters, `unusedLabels` and `userLabels`) through the recursion. `Elide` is the label-removing second pass, and `Desugar` is the whole `desugar` function. Expressions are abstract tags.

The state machine only applies the pass once (`Translate`) to a body chosen in `Init`. It then stops, so `CHECK_DEADLOCK FALSE` is right there.

The reference for `BranchTargetsPreserved` is `Resolve`, Go's own rule for what a `break` or `continue` refers to.

`MC_Desugar` enumerates every body of the form "statement, possibly labelled `L`, holding a statement holding a leaf":

- the statements are if, for, range or switch, in every variant the pass distinguishes: with or without an init or post, type switch or switch, and a range's key and value each nil, `_` or named, over each range type; a range with a named key comes with `:=` and with `=` (`Tok` DEFINE or ASSIGN), and every assignment records its token;
- the leaf is an expression, a `break` or a `continue`, each plain or naming `L`.

It keeps only the bodies Go accepts, 4220 of them. Two levels of nesting is the least needed for a branch inside a switch inside a loop, and for a labelled branch across one level.

### `Pipeline` (with `MC_Pipeline`)

The compile pipeline of `compile.go` 55-378, as the changes it makes to the files of the module and to the imports of each `_durable` file.

**Inputs and state.**

- Each file has the kinds of its function declarations: plain, colored, colored and rejected by `unsupported`, or plain or colored and holding a colored function literal.
- Each `_durable` file records the colored functions it holds rewritten. `CompiledFuncs` models `compileFuncDecl` and `compileFuncLit`: the colored declarations, and the colored literals of their bodies. `ColoredFuncs` is what the color table holds: every colored declaration and literal.
- Each package lives in the module, in GOROOT, or elsewhere.
- Each file's original is untouched, re-emitted with `!durable`, or broken.
- Each `_durable` file is absent, complete, or broken.
- Each file has a set of imports, each a name, a path, a kind (named or blank) and whether GOROOT vendors it (a `golang.org/x` package, whose `types.Package` path in a GOROOT package starts with `vendor/`).
- Each `_durable` file has the set of name/path pairs `addImports` gave it.

**Actions.**

| Action | Models |
|---|---|
| `Load` | every check of `compile` before `colorsByPkg`, which fail before any write, and the "not imported" exit |
| `Vendor` | the vendoring loop and `vendorGOROOT` |
| `StartPackage` | the map-ordered loop over `colorsByPkg` and `compilePackage`'s syntax check |
| `CompileFile` | one iteration of the file loop: re-emit the original (`writeFile`), compile the declarations, `addImports` (which panics on a name bound to two paths), write the `_durable` file |
| `Finish` | the successful end |

`IOFaults` lets a write fail after `os.Create` truncated the file. `Uses` is what `addImports` walks: the named imports of the file, which Go requires to be used, and the `coroutine` identifier `compileFuncBody` binds for each compiled colored function. `AddImports` keeps only these; the file's own import declarations are dropped (line 288).

**No liveness.** `compile` is finite range loops with early returns, so it ends whatever the code does; a termination property would hold by the shape of the model, and none is checked.

**Bounds.** `MC_Pipeline` has two packages, with two files and one file, and up to two declarations per file. A file imports nothing, the coroutine library, another package named `coroutine` (which conflicts with the generated selectors), or a `golang.org/x` package; the abort run instead offers no import, a blank import of `embed` or the other package named `coroutine`, and also declarations holding colored literals. The pass run has writes that may fail and reaches 448,704 states; this covers a conflict, a vendored path, a failure at every write and every order of the two packages. The abort run has reliable writes, so the violations it finds come from the control flow alone; it stops at the first violating state.

### `SerdeGen` (with `MC_SerdeGen`)

The serde generator CLI.

**Types as terms.**

- A defined type is `NamedT(n)`, with underlying type `under[n]`.
- Slices, pointers, structs and basic types are nested records.
- So `types.Identical`, the key of `generator.known`, is equality of terms.

**The generated text** is kept as the functions it defines, in emission order (`out`). Each function has:

- its name;
- its role (`ser`/`des`);
- the type its signature spells;
- the calls its body makes, each with the callee and the type of the argument.

**Recursive walk.** The walk is a set of mutually recursive operators, one per method:

- `Type`, `Named`, `Slice`, `Struct` (with `FieldLocs` for each of its three field loops) and `Basic`;
- `NewGenLocation`, `Known` (`get`), `EnsureImport` and `CallForLoc`.

These operators thread the generator's state (`known`, `imports`, `out`, `panic`) through the recursion. A panic stops the walk.

**`Generate`** is `main` plus `generate`, with these outcomes:

- the usage exit;
- type not found;
- `findTypeDef` returning *any* definition of the requested name (Go map order);
- the nil object panicking in `TargetFile`;
- `Typedef`;
- `format.Source` rejecting a source that spells a type of another package by its import path;
- the file written.

**Bounds.** `MC_SerdeGen` has two defined types, `A` and `B`, of the main package, plus a struct type `U` of another package. It tries every pair of underlying types for `A` and `B` from ten candidates, keeping the 80 pairs Go accepts (no struct holding itself). The candidates include:

- basic types with a codec and `int`, which has none;
- slices of `A`, `U` and `int64`;
- a pointer;
- structs that refer to `A` and `B`.

So the model has self- and mutually recursive types, types reached twice, and `A` and `B` with identical underlying types. The requests are:

- no `-type`;
- `A`;
- `B`;
- an unknown name;
- the package's name.

That gives 400 initial states and 800 states in all. Every outcome of `generate` occurs. `CHECK_DEADLOCK FALSE`: the command runs once and exits.

**Reference definitions** are independent of the walk:

- `Reach`, the fixpoint of the types reachable through fields, elements and underlying types;
- `Unsupported`;
- Go's `Assignable`.

## Runs

| Run | Checks | Result |
|---|---|---|
| `coroutine_safety` | `TypeOK`; `ExactlyOnce` (while not stopped, the log is a prefix of the reference run, and equals it once done); `SuspendedStackResumable` (every saved stack, and every suspended one, is a chain of frames each parked at its call, topped by a frame parked at a yield); `EpilogueBalance` (a return pops exactly its own frame); `RefinesDurableRun` | pass, 761 states |
| `coroutine_liveness` | `Terminates` | pass |
| `stop_teardown` | `StopTearsDown` (a resumed, stopped coroutine returns from `Next` still stopped, with an empty stack, unless the process dies first) | **violation**: Yield's stop check comes before the Resume check, so resuming a stopped coroutine panics with the frames still flagged and no defer runs; the restarted process then completes the run. A crash counts as an ending, so a run that crashes for ever cannot be the counterexample. With the first check removed, the property holds |
| `expr_entry` | `NoPanicUnlessStopped` | **violation**: an entry point whose body is a single Yield call is left uncompiled and indexes an empty stack |
| `registry` (`MC_RegistryPair`) | `TypeOK`, `IdsArePositions` (ids dense, distinct and stable across re-registration, in both processes), `RoundTripPreservesType` | pass, 63,149 states |
| `register_nil_callback` | `RegisterRejectsMissingCallback` | **violation**: the closures built by `registerSerde` are never nil, so `attach`'s check never fires |
| `desugar` | `TypeOK` (no user label survives), `BranchTargetsPreserved`, `NormalForm` (no initialisers, no user range, every branch labelled, every label used) | pass, 8440 states |
| `desugar_ranges` | `RangeLowering` (spec 4.5.2), with range types slice and a named slice type | **violation**, three ways, each found with the other conjuncts removed: a range over a named slice type is left untouched; the range key is the loop counter; a range with `=` is lowered to `:=` declarations that shadow the outer key and value |
| `pipeline` | `TypeOK`, `ImportsResolve` (every name a `_durable` file uses is imported from the path the source wrote, `vendor/` trimmed, once), `DoneCompilesColored` (a finished compile rewrote exactly the colored packages' files) | pass, 448,704 states |
| `compile_abort` | `DurableBuildComplete` | **violation**, four ways, each found alone (and colored literals inside colored declarations alone pass): an unsupported construct aborts the compile after the file's original was re-emitted with `!durable`, with no `_durable` file beside it (spec section 7 says partial outputs are identifiable by the `_durable` suffix); `addImports` panics on a file importing another package named `coroutine`, at the same point (line 353; spec section 7 names a ConflictingImport error instead); a complete `_durable` file lacks the original's blank imports; and a colored literal inside an uncolored declaration (such as an entry point passed to `coroutine.New` from `main`) is copied unrewritten |
| `serde_gen` | `TypeOK` (every qualified call names an imported package); `PanicsOnlyOnUnsupported` (the generator panics exactly when the requested type reaches a pointer or a basic kind with no codec, or the package name was requested; recursion never hits the override panic); `EveryReachableSerialized` (every reachable slice and struct gets both functions); `CallsMatchArgument` (every call goes to a function of its role for the argument's underlying type) | pass, 800 states |
| `serde_well_typed` | `CallsWellTyped` | **violation**: the memo is keyed by identical types and `Named` generates for the underlying type, so `type B []A` with `type A string` calls `serde.SerializeString` on an `A`, and two defined types with one underlying struct share the first one's functions; Go rejects the generated file. The cfg names the second type `gen1`, and, with the argument-type conjunct removed, TLC also finds `Serialize_gen1` declared twice (newGenLocation's `TODO: check name collision`) |

Every property of a passing run has a mutant in `PROJECT.json`: a fault of the modelled code that TLC must catch under the run's own configuration. Examples are an epilogue that keeps the frame pointer, a frame always re-initialised, an off-by-one span, a switch handing its own label down as the continue target, and an id taken after the append. The serde mutants are a struct walk without the memo check, a field loop one short, and slice calls to the slice's own functions.

## Not modelled

- The compile pipeline's syntax construction (`compileFuncDecl`, `generateFunctypes`), and its steps before `colorsByPkg`, which are one nondeterministic error. `addImports` is modelled over the bindings it collects, not the AST it walks.
- Coloring and frame extraction (not under `src/`).
- Serializer byte codecs.
- `doublemap`, whose callers are not under `src/`.
- The serde generator's package loading and file I/O after `format.Source`. One of its issues has no run: `findTypeDef` may pick a field or variable of the requested name (its `TOOD` comment); it is listed as a hazard.
- Variable scopes in the desugarer: an assignment records its token, which is enough to see a declaration added by the pass, but which variable a name resolves to is not modelled.
- The type of deferred calls: a `defer` of a call with arguments or results does not type-check after the rewrite (`compile.go` 486), which the Go compiler reports on the output.
- Data semantics of loop bodies.

The hazards these leave uncovered are listed in `PROJECT.json` with the reason.
