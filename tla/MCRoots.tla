--------------------------------- MODULE MCRoots ---------------------------------
(* What the roots of the scene show: their surfaces, the objects of the game that  *)
(* are bound to them, images and text inputs, and what is touched.  The models share   *)
(* no state: a behaviour is one of them, and the others keep their initial states.    *)
EXTENDS HostSurfaces, SceneBindings, Images, TextInput, InputRouter, TLC

CONSTANTS left, right

Symmetry == Permutations({left, right})

VARIABLE part
parts == <<part, vars, sceneVars, imageVars, textVars, routerVars>>

InSurfaces(A) ==
  part = "surfaces" /\ A /\ UNCHANGED <<part, sceneVars, imageVars, textVars, routerVars>>
InScene(A) ==
  part = "scene" /\ A /\ UNCHANGED <<part, vars, imageVars, textVars, routerVars>>
InImages(A) ==
  part = "images" /\ A /\ UNCHANGED <<part, vars, sceneVars, textVars, routerVars>>
InText(A) ==
  part = "text" /\ A /\ UNCHANGED <<part, vars, sceneVars, imageVars, routerVars>>
InRouter(A) ==
  part = "router" /\ A /\ UNCHANGED <<part, vars, sceneVars, imageVars, textVars>>

RootsInit == /\ part \in {"surfaces", "scene", "images", "text", "router"}
             /\ Init /\ SceneInit /\ ImagesInit /\ TextInit /\ RouterInit
             /\ part = "surfaces" \/ (hasFile /\ \A r \in Roots : processing[r])
             /\ part = "text" \/ ~editor.multiline
RootsNext == \/ InSurfaces(Next) \/ InScene(SceneNext)
             \/ InImages(ImagesNext) \/ InText(TextNext) \/ InRouter(RouterNext)
RootsSpec == RootsInit /\ [][RootsNext]_parts
=================================================================================
