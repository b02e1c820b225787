---------------------------- MODULE MCNamespace -----------------------------
(* The instance of Namespace that TLC checks: three directories as in the   *)
(* kernel, of which two hold a name that begins with another one, and a     *)
(* buffer that has room for the longest name and its terminator.            *)
EXTENDS Namespace, TLC

A == <<"a">>
B == <<"b">>
AB == <<"a", "b">>
MCTree ==
    ("root" :> (A :> "dev" @@ AB :> "bin")) @@
    ("dev" :> (A :> "console" @@ AB :> "banner")) @@
    ("bin" :> (B :> "pulse" @@ <<"b", "a">> :> "pulse2" @@ AB :> "echo"))
MCOps == ("console" :> {2}) @@ ("banner" :> {1}) @@ [n \in {"dev", "bin", "pulse", "pulse2", "echo"} |-> {}]
=============================================================================
