----------------------------- MODULE MCServices -----------------------------
(***************************************************************************)
(* Five components whose steps do not depend on each other's: a lobby, the *)
(* artifacts of a match, a game and its queues, listings of results, the   *)
(* hosts' certificates and records.  They share no state, so a behaviour   *)
(* of all of them is one of each, and a run checks them one at a time:     *)
(* part says which of them moves.                                          *)
(***************************************************************************)
EXTENDS Lobby, Artifacts, Catalog, ResultPages, WildcardTLS, TLC

VARIABLE part

\* Requests are alike and so are names, but for IndexName: what matters is how
\* many requests share a name, and whether one has that of the index.
UploadNames == {<<1, 2, 3>>, <<1, 1, IndexName>>}

ServicesInit ==
    /\ part \in {"lobby", "artifacts", "catalog", "pages", "hosts"}
    /\ Init
    /\ ArtifactInit
    /\ CatalogInit
    /\ PagesInit
    /\ TLSInit
    \* The parts that do not move need one initial state.
    /\ [u \in Request |-> upload[u].name] \in
          IF part = "artifacts" THEN UploadNames ELSE {<<1, 2, 3>>}
    /\ part # "pages" => walk.of = "artifacts"

ServicesNext ==
    /\ UNCHANGED part
    /\ \/ part = "lobby" /\ Next /\ UNCHANGED <<artifactVars, catalogVars, pageVars, tlsVars>>
       \/ part = "artifacts" /\ ArtifactNext /\ UNCHANGED <<vars, catalogVars, pageVars, tlsVars>>
       \/ part = "catalog" /\ CatalogNext /\ UNCHANGED <<vars, artifactVars, pageVars, tlsVars>>
       \/ part = "pages" /\ PagesNext /\ UNCHANGED <<vars, artifactVars, catalogVars, tlsVars>>
       \/ part = "hosts" /\ TLSNext /\ UNCHANGED <<vars, artifactVars, catalogVars, pageVars>>

ServicesSpec == ServicesInit /\ [][ServicesNext]_<<part, vars, artifactVars, catalogVars, pageVars, tlsVars>>

ServicesTypeOK == TypeOK /\ ArtifactTypeOK /\ CatalogTypeOK /\ PagesTypeOK /\ TLSTypeOK

Symmetry == Permutations(Player \ {Host})
=============================================================================
