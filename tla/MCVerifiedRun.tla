----------------------------- MODULE MCVerifiedRun -----------------------------
(***************************************************************************)
(* A small instance of VerifiedRun for TLC.                                *)
(***************************************************************************)
EXTENDS VerifiedRun

MCContents == 0..1
MCPrompts == {{"tests", "publish", "deployment"}, {"changes"}}
MCDoings == {"edited", "tests"}
==============================================================================
