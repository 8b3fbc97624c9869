----------------------------- MODULE MCCertStore -----------------------------
(* Model-checking instances of CertStore.                                  *)
EXTENDS CertStore

(* to_ascii_lowercase on the labels that occur below. *)
MCLowerLabel(l) == CASE l = "A"  -> "a"
                     [] l = "EX" -> "ex"
                     [] OTHER    -> l

(* A tree of exact and wildcard directories, with names that differ from   *)
(* their keys by case or a trailing dot, and a wildcard directory that is  *)
(* also an exact one.                                                      *)
MCDirsLookup ==
    { [kind |-> "sni",      name |-> <<"a", "ex", "com">>],
      [kind |-> "sni",      name |-> <<"EX", "com">>],
      [kind |-> "sni",      name |-> <<"b", "ex", "com", "">>],
      [kind |-> "wildcard", name |-> <<"ex", "com">>],
      [kind |-> "wildcard", name |-> <<"com">>],
      [kind |-> "wildcard", name |-> <<"b", "ex", "com">>],
      [kind |-> "wildcard", name |-> <<"a", "ex", "com">>] }

(* Offered names: exact, upper case, trailing dots, deeper names, a bare   *)
(* suffix, a single label, an empty name and an empty inner label.         *)
MCSnisLookup ==
    { <<"a", "ex", "com">>, <<"A", "EX", "com", "", "">>, <<"b", "ex", "com">>,
      <<"c", "b", "ex", "com">>, <<"x", "a", "ex", "com">>, <<"ex", "com">>,
      <<"com">>, <<>>, <<"a", "", "ex", "com">>, <<"EX", "com", "">> }

(* Two directories, one of each kind, that are redeployed. *)
MCDirsReload ==
    { [kind |-> "sni",      name |-> <<"a", "ex", "com">>],
      [kind |-> "wildcard", name |-> <<"ex", "com">>] }
=============================================================================
