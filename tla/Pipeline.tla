----------------------------- MODULE Pipeline -----------------------------
(***************************************************************************)
(* The compile pipeline of src/compiler/compile.go (53-322): compile loads *)
(* the module, checks it, decides where colored packages may be mutated,  *)
(* then compilePackage rewrites each file of each colored package: first  *)
(* the original re-emitted with the durable tag excluded, then the        *)
(* _durable file.  The syntax is abstracted to the kind of each function  *)
(* declaration of a file; the files are the state the pipeline changes.   *)
(***************************************************************************)
EXTENDS Integers, Sequences, FiniteSets

CONSTANTS
  Pkgs,       \* the loaded packages
  FilesOf,    \* Pkgs -> sequence of distinct files (p.GoFiles)
  DeclChoices,\* candidate declaration kinds of a file: sequences over
              \* "plain", "colored", "unsupported" (colored, rejected),
              \* "plainlit" (a plain declaration holding a colored function
              \* literal) and "coloredlit" (a colored one holding one)
  LocChoices, \* where a package lives: "module", "goroot", "external"
  IOFaults,   \* whether a write of writeFile may fail
  ImportChoices, \* candidate import sets of a file: records [name, path,
              \* kind ("named" or "blank"), xvendor (a golang.org/x package
              \* GOROOT vendors)]
  CoroutinePath \* coroutinePackage

Files == UNION {{FilesOf[p][i] : i \in DOMAIN FilesOf[p]} : p \in Pkgs}

VARIABLES
  decls,     \* File -> the kinds of its function declarations
  loc,       \* Pkgs -> where the package lives
  imported,  \* the coroutine package is imported by the module
  orig,      \* File -> "src", "tagged" (re-emitted without durable), "broken"
  durable,   \* File -> "none", "ok", "broken": the _durable file
  phase,     \* "load", "vendor", "compile", "done", "nothing", "error",
             \* "panic"
  todo,      \* colored packages not compiled yet
  cur,       \* the package compilePackage is working on, or None
  idx,       \* the index of the file of cur being compiled
  imps,      \* File -> the import specs of the original file
  dimp,      \* File -> the imports addImports gave its _durable file
  dfuncs     \* File -> the colored functions rewritten in its _durable file

vars == <<decls, loc, imported, orig, durable, phase, todo, cur, idx, imps, dimp, dfuncs>>

None == "none"

(* colorsByPkg: the packages with a colored function.                     *)
Colored == {p \in Pkgs : \E i \in DOMAIN FilesOf[p] :
              \E j \in DOMAIN decls[FilesOf[p][i]] : decls[FilesOf[p][i]][j] # "plain"}

Init ==
  /\ decls \in [Files -> DeclChoices]
  /\ loc \in [Pkgs -> LocChoices]
  /\ imported \in BOOLEAN
  /\ orig = [f \in Files |-> "src"]
  /\ durable = [f \in Files |-> "none"]
  /\ phase = "load"
  /\ todo = {}
  /\ cur = None
  /\ idx = 0
  /\ imps \in [Files -> ImportChoices]
  /\ dimp = [f \in Files |-> {}]
  /\ dfuncs = [f \in Files |-> {}]

(* compile up to colorsByPkg: every failure here (path, load, module,     *)
(* package errors, coloring) returns before a file is touched; without an *)
(* import of the coroutine package there is nothing to do.               *)
Load ==
  /\ phase = "load"
  /\ phase' \in IF imported THEN {"vendor", "error"} ELSE {"nothing", "error"}
  /\ UNCHANGED <<decls, loc, imported, orig, durable, todo, cur, idx, imps, dimp, dfuncs>>

(* The vendoring loop: packages of the module may be mutated, GOROOT ones *)
(* are vendored (vendorGOROOT may fail), any other is rejected.           *)
Vendor ==
  /\ phase = "vendor"
  /\ IF \E p \in Colored : loc[p] = "external"
     THEN phase' = "error" /\ UNCHANGED todo
     ELSE \/ phase' = "compile" /\ todo' = Colored
          \/ /\ IOFaults /\ \E p \in Colored : loc[p] = "goroot"
             /\ phase' = "error" /\ UNCHANGED todo
  /\ UNCHANGED <<decls, loc, imported, orig, durable, cur, idx, imps, dimp, dfuncs>>

(* for p, colors := range colorsByPkg, in map order: compilePackage,      *)
(* which first rejects a yield function that is neither a declaration nor *)
(* a literal, before it writes anything.                                  *)
StartPackage ==
  /\ phase = "compile" /\ cur = None
  /\ \E p \in todo :
       \/ cur' = p /\ idx' = 1 /\ todo' = todo \ {p} /\ UNCHANGED phase
       \/ phase' = "error" /\ UNCHANGED <<todo, cur, idx>>
  /\ UNCHANGED <<decls, loc, imported, orig, durable, imps, dimp, dfuncs>>

(* writeFile: os.Create truncates the file, so a failed write after it   *)
(* leaves a broken file.                                                  *)
Write(done) == IF IOFaults THEN {done, "broken"} ELSE {done}

(* The package a types.Package path names: GOROOT packages import the    *)
(* golang.org/x packages GOROOT vendors under "vendor/".                  *)
TypesPath(i, p) == [prefix |-> IF i.xvendor /\ loc[p] = "goroot" THEN "vendor/" ELSE "",
                    path |-> i.path]

(* The package names the generated file of f selects from, with the       *)
(* package each is bound to: the user's named imports, all of which Go    *)
(* requires to be used, and, when a colored function of f was compiled,   *)
(* the coroutine identifier compileFuncBody binds to coroutinePackage.    *)
Uses(f, p) ==
  {[name |-> i.name, tpath |-> TypesPath(i, p)] : i \in {i \in imps[f] : i.kind = "named"}}
  \cup IF \E j \in DOMAIN decls[f] : decls[f][j] \in {"colored", "coloredlit"}
       THEN {[name |-> "coroutine", tpath |-> [prefix |-> "", path |-> CoroutinePath]]}
       ELSE {}

(* Fault: "vendor/" is not trimmed from the package path.                 *)
TrimVendorNone(tp) == tp.prefix \o tp.path

(* strings.TrimPrefix(pkg, "vendor/")                                     *)
TrimVendor(tp) == tp.path

(* addImports: every selector whose X is a package name binds that name   *)
(* to the package's path, "vendor/" trimmed; a name already bound to      *)
(* another path panics ("conflicting imports").  Only these bindings are  *)
(* imported: the file's import declarations are not carried over.         *)
AddImports(uses) ==
  LET b == {<<u.name, TrimVendor(u.tpath)>> : u \in uses}
  IN  [panic |-> \E x, y \in b : x[1] = y[1] /\ x[2] # y[2], imports |-> b]

(* Fault: the file index is not reset when the package's last file is    *)
(* done.                                                                  *)
NextFileNoReset(p, i) ==
  IF i = Len(FilesOf[p]) THEN [cur |-> None, idx |-> i] ELSE [cur |-> p, idx |-> i + 1]

(* Fault: the loop ends one file early.                                   *)
NextFileOffByOne(p, i) ==
  IF i >= Len(FilesOf[p]) - 1 THEN [cur |-> None, idx |-> 0] ELSE [cur |-> p, idx |-> i + 1]

(* for i, f := range p.Syntax: the next file of p, or the end of p.       *)
NextFile(p, i) ==
  IF i = Len(FilesOf[p]) THEN [cur |-> None, idx |-> 0] ELSE [cur |-> p, idx |-> i + 1]

(* The colored functions of a declaration list, as the color table has   *)
(* them: <<j, "decl">> for a colored declaration, <<j, "lit">> for a      *)
(* colored literal inside declaration j.                                   *)
ColoredFuncs(ds) ==
  {<<j, "decl">> : j \in {j \in DOMAIN ds : ds[j] \in {"colored", "coloredlit"}}}
  \cup {<<j, "lit">> : j \in {j \in DOMAIN ds : ds[j] \in {"plainlit", "coloredlit"}}}

(* The declaration loop: a FuncDecl that colorsByFunc does not hold is    *)
(* copied as it is; a colored one goes through compileFuncDecl, whose     *)
(* compileFuncBody replaces each colored literal of the body by           *)
(* compileFuncLit.  Nothing else reaches a literal.                       *)
CompiledFuncs(ds) ==
  {<<j, "decl">> : j \in {j \in DOMAIN ds : ds[j] \in {"colored", "coloredlit"}}}
  \cup {<<j, "lit">> : j \in {j \in DOMAIN ds : ds[j] = "coloredlit"}}

(* One iteration of compilePackage's file loop: re-emit the original,    *)
(* then compile its declarations (an unsupported construct aborts), then *)
(* addImports (which may panic), then write the _durable file.  Any error *)
(* ends the whole compile.                                               *)
CompileFile ==
  /\ phase = "compile" /\ cur # None
  /\ LET f == FilesOf[cur][idx]
         rejected == \E j \in DOMAIN decls[f] : decls[f][j] = "unsupported"
         gen == AddImports(Uses(f, cur))
     IN \E o \in Write("tagged"), d \in Write("ok") :
          /\ orig' = [orig EXCEPT ![f] = o]
          /\ CASE o = "broken" \/ rejected ->
                    phase' = "error" /\ UNCHANGED <<durable, dimp, dfuncs, cur, idx>>
               [] gen.panic ->
                    phase' = "panic" /\ UNCHANGED <<durable, dimp, dfuncs, cur, idx>>
               [] d = "broken" ->
                    /\ phase' = "error" /\ durable' = [durable EXCEPT ![f] = d]
                    /\ UNCHANGED <<dimp, dfuncs, cur, idx>>
               [] OTHER ->
                    /\ durable' = [durable EXCEPT ![f] = d]
                    /\ dimp' = [dimp EXCEPT ![f] = gen.imports]
                    /\ dfuncs' = [dfuncs EXCEPT ![f] = CompiledFuncs(decls[f])]
                    /\ UNCHANGED phase
                    /\ cur' = NextFile(cur, idx).cur
                    /\ idx' = NextFile(cur, idx).idx
  /\ UNCHANGED <<decls, loc, imported, todo, imps>>

Finish ==
  /\ phase = "compile" /\ cur = None /\ todo = {}
  /\ phase' = "done"
  /\ UNCHANGED <<decls, loc, imported, orig, durable, todo, cur, idx, imps, dimp, dfuncs>>

Next == Load \/ Vendor \/ StartPackage \/ CompileFile \/ Finish

Spec == Init /\ [][Next]_vars

-----------------------------------------------------------------------------
TypeOK ==
  /\ orig \in [Files -> {"src", "tagged", "broken"}]
  /\ durable \in [Files -> {"none", "ok", "broken"}]
  /\ phase \in {"load", "vendor", "compile", "done", "nothing", "error", "panic"}
  /\ dimp \in [Files -> SUBSET (STRING \X STRING)]
  /\ todo \subseteq Pkgs
  /\ cur \in Pkgs \cup {None}
  /\ (cur = None) = (idx = 0)

(* The files of the packages with a colored function.                     *)
ColoredFiles == UNION {{FilesOf[p][i] : i \in DOMAIN FilesOf[p]} : p \in Colored}

(* Spec section 7 and the durable build: the original files are changed  *)
(* only in step with a complete _durable file, which replaces the        *)
(* original under the durable tag and so must import every package the   *)
(* original imports (a blank import runs the package's init, and //go:embed *)
(* needs the blank import of embed), and must hold every colored function *)
(* of it rewritten, literals included (spec 4.5: the dispatch rewrite of   *)
(* every colored procedure; a literal left as written yields with no frame *)
(* of its own).  When the compiler aborts, "partial output files may exist *)
(* but are identifiable by the _durable suffix".                           *)
DurableBuildComplete ==
  \A f \in Files :
    \/ orig[f] = "src"
    \/ /\ durable[f] = "ok"
       /\ \A i \in imps[f] : <<i.name, i.path>> \in dimp[f]
       /\ ColoredFuncs(decls[f]) \subseteq dfuncs[f]

(* addImports: every package name the generated code of a _durable file  *)
(* selects from is imported under that name from the path the source      *)
(* wrote (for a GOROOT package, without the "vendor/" its types.Package   *)
(* path carries), and no name is imported twice.                          *)
ImportsResolve ==
  \A f \in Files : durable[f] = "ok" =>
    /\ \A i \in {i \in imps[f] : i.kind = "named"} : <<i.name, i.path>> \in dimp[f]
    /\ \A x, y \in dimp[f] : x[1] = y[1] => x = y

(* compile: a run that finishes has rewritten exactly the files of the    *)
(* colored packages, each with its _durable file, in whatever order the  *)
(* map of colorsByPkg is ranged over, and left every other file alone.    *)
DoneCompilesColored ==
  phase = "done" =>
    \A f \in Files :
      IF f \in ColoredFiles THEN orig[f] = "tagged" /\ durable[f] = "ok"
                           ELSE orig[f] = "src" /\ durable[f] = "none"

=============================================================================
