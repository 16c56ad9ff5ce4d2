---------------------------- MODULE MCTauriSync ----------------------------
(* One webview that is closed, reopened and reloaded, and two keys, enough for
   a subscription to cover a change or not. *)
EXTENDS TauriSync

KeySymmetry == Permutations(Keys)
=============================================================================
