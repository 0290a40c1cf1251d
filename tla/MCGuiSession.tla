---------------------------- MODULE MCGuiSession ----------------------------
(* GuiSession with two images, a few requests and one or two host faults.  *)
EXTENDS GuiSession
=============================================================================
