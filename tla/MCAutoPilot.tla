----------------------------- MODULE MCAutoPilot -----------------------------
(* AutoPilot for TLC: one pipeline of each kind.                           *)
EXTENDS AutoPilot

CONSTANTS own, public, private

MCOwn == {own}
MCPublic == {public}
MCPrivate == {private}
MCAll == {own, public, private}
MCNone == {}
=============================================================================
