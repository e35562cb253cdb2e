----------------------------- MODULE MCRenderTask -----------------------------
(***************************************************************************)
(* Two render tasks: one that draws into a frame buffer is driven freely,  *)
(* the other one is there to finish in the same frame.                     *)
(***************************************************************************)
EXTENDS RenderTask, TLC

CONSTANTS offscreen, onscreen

MCTasks == {offscreen, onscreen}
MCExisting == {offscreen}
MCOffscreen == {offscreen}
===============================================================================
