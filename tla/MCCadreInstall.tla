--------------------------- MODULE MCCadreInstall ---------------------------
(***************************************************************************)
(* A small installation: a library from an archive, a second one from a    *)
(* patched git tree that needs the first, and an offline package that      *)
(* needs the second, in every order os.walk may list them.                 *)
(***************************************************************************)
EXTENDS CadreInstall, FiniteSets

MCNames == {"boost", "gf_orb_slam2", "pdk"}

Bare == [dependencies |-> {}, apt |-> {}, precmds |-> FALSE, source |-> "none",
         url |-> FALSE, branch |-> FALSE, patch |-> FALSE,
         srcprecmds |-> FALSE, srcpostcmds |-> FALSE, build |-> <<>>,
         postcmds |-> FALSE]

MCConfig ==
  [n \in MCNames |->
     CASE n = "boost" ->
            [Bare EXCEPT !.source = "archive", !.url = TRUE, !.srcprecmds = TRUE,
                         !.build = <<"script">>, !.postcmds = TRUE]
       [] n = "gf_orb_slam2" ->
            [Bare EXCEPT !.source = "git", !.branch = TRUE, !.patch = TRUE,
                         !.dependencies = {"boost"},
                         !.build = <<"cmake", "make">>]
       [] n = "pdk" ->
            [Bare EXCEPT !.source = "deb", !.dependencies = {"gf_orb_slam2"},
                         !.apt = {"pkgs"}]]

MCOrders == {q \in [1..3 -> MCNames] : Cardinality({q[i] : i \in 1..3}) = 3}

(***************************************************************************)
(* A fresh clone with or without the directory of the submodule, and with  *)
(* the offline package in place or not.                                    *)
(***************************************************************************)
MCWorlds ==
  {[tree |-> [n \in MCNames |-> IF n = "gf_orb_slam2" THEN t ELSE "absent"],
    file |-> f] : t \in {"absent", "empty"}, f \in {{}, {"pdk"}}}

\* So each of them that has sources needs them.
ASSUME SourcesAssumption == EachNeedsItsSources
=============================================================================
