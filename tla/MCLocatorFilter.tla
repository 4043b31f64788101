--------------------------- MODULE MCLocatorFilter ---------------------------
(* LocatorFilter for TLC: two callers, two hashes, MaxBlockLocatorsPerMsg  *)
(* scaled to 1 so that a locator of two hashes takes the error path, and   *)
(* the empty locator (nil begin hash) among the inputs.                    *)
EXTENDS LocatorFilter

CONSTANTS h1, h2

MCHashes == {h1, h2}
MCLocators == {<<>>, <<h1>>, <<h1, h2>>}
MCStops == {h2}
=============================================================================
