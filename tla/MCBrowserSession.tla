-------------------------- MODULE MCBrowserSession --------------------------
(***************************************************************************)
(* An instance of BrowserSession for TLC: the sample has a bad entry, one  *)
(* other archive has only good ones and one does not open.                 *)
(***************************************************************************)
EXTENDS BrowserSession, TLC

CONSTANTS sample, other, broken, e1, e2

SoundEntries == sample :> {e1} @@ other :> {e1, e2} @@ broken :> {}

=============================================================================
