---------------------------- MODULE MC_Pipeline ----------------------------
(* Two packages, one with two files and one with one.  Each file has up   *)
(* to two function declarations: plain ones, colored ones, and colored    *)
(* ones the compiler rejects; a package lives in the module, in GOROOT or *)
(* outside both.  A file imports nothing, the coroutine library, another *)
(* package named coroutine, a golang.org/x package (vendored under GOROOT *)
(* when the importing package is a GOROOT one) or, for the abort run,    *)
(* embed as a blank import or the other package named coroutine.        *)
EXTENDS Pipeline, TLC

CONSTANTS P1, P2

MCPkgs == {P1, P2}
MCFilesOf == (P1 :> <<"a.go", "b.go">>) @@ (P2 :> <<"c.go">>)
MCDeclChoices == {<<"plain">>, <<"colored">>, <<"plain", "colored">>, <<"colored", "unsupported">>}
(* For the abort run, also a plain and a colored declaration each holding *)
(* a colored function literal.                                           *)
MCDeclChoicesLits == MCDeclChoices \cup {<<"plainlit">>, <<"coloredlit">>}
MCLocChoices == {"module", "goroot", "external"}

MCCoroutinePath == "github.com/stealthrocket/coroutine"
Imp(n, p, k, x) == [name |-> n, path |-> p, kind |-> k, xvendor |-> x]
Lib   == Imp("coroutine", MCCoroutinePath, "named", FALSE)
Mine  == Imp("coroutine", "example.com/coroutine", "named", FALSE)
Hpack == Imp("hpack", "golang.org/x/net/http2/hpack", "named", TRUE)
Embed == Imp("_", "embed", "blank", FALSE)
MCImportChoices == {{}, {Lib}, {Mine}, {Hpack}}
MCImportChoicesBlank == {{}, {Embed}, {Mine}}
=============================================================================
