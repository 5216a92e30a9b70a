----------------------------- MODULE MCProgress -----------------------------
(***************************************************************************)
(* Four components that must make progress: the spectator stream, the      *)
(* certificate, the rating transactions and the game server.  They share   *)
(* no state, so a behaviour of all of them is one of each, and a run       *)
(* checks them one at a time: part says which of them moves.               *)
(***************************************************************************)
EXTENDS Spectate, WildcardTLS, Ratings, GameServer

VARIABLE part

\* Higher rated players are expected to win three points of four.
ExpectedScore(d) == IF d = 0 THEN 2 ELSE IF d > 0 THEN 1 ELSE 3

\* Matches of two in both orders, one of two and a guest, and one of one.
LineUps == {<<1, 2>>, <<2, 1>>, <<3, 9, 2>>, <<1, 9>>}

Init ==
    /\ part \in {"stream", "certificate", "ratings", "game"}
    /\ SpectateInit
    /\ TLSInit
    /\ RatingsInit
    /\ GameServerInit

Next ==
    \/ part = "stream" /\ SpectateNext /\ UNCHANGED <<part, tlsVars, ratingVars, gameServerVars>>
    \/ part = "certificate" /\ TLSNext /\ UNCHANGED <<part, spectateVars, ratingVars, gameServerVars>>
    \/ part = "ratings" /\ RatingsNext /\ UNCHANGED <<part, spectateVars, tlsVars, gameServerVars>>
    \/ part = "game" /\ GameServerNext /\ UNCHANGED <<part, spectateVars, tlsVars, ratingVars>>

Spec ==
    /\ Init
    /\ [][Next]_<<part, spectateVars, tlsVars, ratingVars, gameServerVars>>
    /\ part = "stream" => SpectateFairness
    /\ TLSFairness
    /\ RatingsFairness
    /\ GameServerFairness

TypeOK == SpectateTypeOK /\ TLSTypeOK /\ RatingsTypeOK /\ GameServerTypeOK

=============================================================================
