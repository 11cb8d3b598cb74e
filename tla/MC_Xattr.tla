------------------------------ MODULE MC_Xattr ------------------------------
(***************************************************************************)
(* Xattr bodies for Xattr.  Symbols: "u" stands for "user.", "t" for      *)
(* "trusted."; name_index 1 is user, 4 trusted, 0 the empty prefix.       *)
(***************************************************************************)
EXTENDS Xattr, TLC

XE(ns, sfx, vlen, val) == [ns |-> ns, sfx |-> sfx, vlen |-> vlen, val |-> val]

MCPrefixes == (0 :> << >>) @@ (1 :> <<"u">>) @@ (4 :> <<"t">>)

\* No xattr; user.a; trusted.ab and user.b spelt with the empty prefix;
\* user.a twice over, once with the empty prefix; an unknown namespace
\* before user.b; user.b, trusted.a, user.ab.
MCBodies ==
  { [count |-> 0, ents |-> << >>],
    [count |-> 3, ents |-> << XE(1, <<"a">>, 1, 1) >>],
    [count |-> 5, ents |-> << XE(4, <<"a", "b">>, 0, 2), XE(0, <<"u", "b">>, 2, 3) >>],
    [count |-> 5, ents |-> << XE(1, <<"a">>, 1, 4), XE(0, <<"u", "a">>, 1, 5) >>],
    [count |-> 5, ents |-> << XE(9, <<"a">>, 2, 6), XE(1, <<"b">>, 1, 7) >>],
    [count |-> 7, ents |-> << XE(1, <<"b">>, 3, 10), XE(4, <<"a">>, 0, 11),
                              XE(1, <<"a", "b">>, 2, 12) >>] }

\* An entry of 9 bytes in a body whose count walks 8.
MCOverrun == { [count |-> 3, ents |-> << XE(1, <<"a", "b">>, 3, 8) >>] }

MCGarbage == { XE(1, <<"b">>, 0, 9) }

MCLookups == { <<"u", "a">>, <<"t", "a", "b">>, <<"u", "b">>, <<"u", "a", "b">> }
=============================================================================
