---------------------------- MODULE MCDevServer ----------------------------
(* Instances of DevServer for TLC: one texture, a program that uses it, one *)
(* that does not and one that does not compile.                             *)
EXTENDS DevServer, TLC

CONSTANTS Plain, Textured, Typo, tex

MCAssets == {tex}
MCTexts == {Plain, Textured, Typo}
MCUses == (Plain :> {}) @@ (Textured :> {tex}) @@ (Typo :> {})
=============================================================================
