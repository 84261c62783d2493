--------------------------- MODULE MCPublishedPolicy ---------------------------
(***************************************************************************)
(* An instance of PublishedPolicy for TLC: contents that validation        *)
(* rejects, that Parse rejects, and that both accept.                      *)
(***************************************************************************)
EXTENDS PublishedPolicy

CONSTANTS empty, unparsable, good, r1, r2
AllContents == {empty, unparsable, good}
ValidOnes   == {unparsable, good}
ParsedOnes  == {empty, good}
TwoRequests == {r1, r2}
=============================================================================
