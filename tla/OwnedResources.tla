--------------------------- MODULE OwnedResources ---------------------------
(***************************************************************************)
(* What the operator promises about one DeviceConfig name, without caches, *)
(* queue or requests: a DeviceConfig is held, by the operator's finalizer, *)
(* before any object is made for it; it is never held again once it was    *)
(* asked to go, is let go only then, and does not vanish while it is held; *)
(* and objects are given to nobody but the DeviceConfig that is held.      *)
(*                                                                         *)
(* This is the abstract specification that DeviceConfigReconciler          *)
(* implements; the mapping is in module OwnedResourcesRefinement.          *)
(***************************************************************************)
EXTENDS Naturals

CONSTANTS
  Kinds,      \* the objects of a DeviceConfig
  Nobody,     \* no DeviceConfig, and the owner of an object that is not there
  Outsiders   \* owners that an object made by somebody else may have

VARIABLES
  latest,     \* the last uid a DeviceConfig of this name was given
  current,    \* the uid of the one that is there, or Nobody
  held,       \* does the operator hold it?
  asked,      \* is it asked to go?
  owner       \* the owner of each object

ownedVars == <<latest, current, held, asked, owner>>

OwnedInit ==
  /\ latest = 0 /\ current = Nobody /\ held = FALSE /\ asked = FALSE
  /\ owner = [k \in Kinds |-> Nobody]

(* A user makes a DeviceConfig, asks for its deletion; it goes, unless held. *)
Appear ==
  /\ current = Nobody
  /\ latest' = latest + 1 /\ current' = latest + 1
  /\ UNCHANGED <<held, asked, owner>>

Ask ==
  /\ current # Nobody /\ asked' = TRUE
  /\ UNCHANGED <<latest, current, held, owner>>

Vanish ==
  /\ current # Nobody /\ ~held
  /\ current' = Nobody /\ asked' = FALSE
  /\ UNCHANGED <<latest, held, owner>>

(* The operator holds it and lets it go, which may be the end of it. *)
Hold ==
  /\ current # Nobody /\ ~asked
  /\ held' = TRUE
  /\ UNCHANGED <<latest, current, asked, owner>>

LetGo ==
  /\ held /\ asked
  /\ held' = FALSE
  /\ \/ UNCHANGED <<current, asked>>
     \/ current' = Nobody /\ asked' = FALSE
  /\ UNCHANGED <<latest, owner>>

(* The operator makes an object, or takes one over. *)
Give(k) ==
  /\ held
  /\ owner' = [owner EXCEPT ![k] = current]
  /\ UNCHANGED <<latest, current, held, asked>>

(* Somebody else makes one; anybody deletes one. *)
MadeElsewhere(k) ==
  /\ owner[k] = Nobody
  /\ \E o \in Outsiders : owner' = [owner EXCEPT ![k] = o]
  /\ UNCHANGED <<latest, current, held, asked>>

Lose(k) ==
  /\ owner' = [owner EXCEPT ![k] = Nobody]
  /\ UNCHANGED <<latest, current, held, asked>>

OwnedNext ==
  \/ Appear \/ Ask \/ Vanish \/ Hold \/ LetGo
  \/ \E k \in Kinds : Give(k) \/ MadeElsewhere(k) \/ Lose(k)

OwnedSpec == OwnedInit /\ [][OwnedNext]_ownedVars
=============================================================================
