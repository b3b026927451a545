---------------------------- MODULE PlayerProfile ----------------------------
(* contracts/PlayerProfile.sol: one profile per wallet, and the device keys
   bound to it.  A key that was revoked may be bound again, by its own profile
   only.  Names are left out. *)
EXTENDS Naturals, Sequences, SequencesExt

CONSTANTS Owners, DeviceKeys

VARIABLES
  nextId,
  profileOf,  \* profileOf[a]: the profile of wallet a, 0 for none
  bindings,   \* bindings[k]: [id, active]; id 0 for a key never bound
  keysOf      \* keysOf[id]: the keys ever bound, in order

profileVars == <<nextId, profileOf, bindings, keysOf>>

ProfileIds == Nat \ {0}

ProfileInit ==
    /\ nextId = 1
    /\ profileOf = [a \in Owners |-> 0]
    /\ bindings = [k \in DeviceKeys |-> [id |-> 0, active |-> FALSE]]
    /\ keysOf = <<>>

MayBindTo(k, id) == bindings[k].id \in {0, id}
Listed_Again(k, id, keys) == Append(keys[id], k)
Listed(k, id, keys) == IF bindings[k].id = 0 THEN Append(keys[id], k) ELSE keys[id]

(* _bind() *)
BindTo(k, id, keys) ==
    /\ MayBindTo(k, id)
    /\ keysOf' = [keys EXCEPT ![id] = Listed(k, id, keys)]
    /\ bindings' = [bindings EXCEPT ![k] = [id |-> id, active |-> TRUE]]

RegisterProfile(a, k) ==
    /\ profileOf[a] = 0
    /\ profileOf' = [profileOf EXCEPT ![a] = nextId] /\ nextId' = nextId + 1
    /\ BindTo(k, nextId, Append(keysOf, <<>>))

BindKey(a, k) ==
    /\ profileOf[a] # 0
    /\ BindTo(k, profileOf[a], keysOf)
    /\ UNCHANGED <<nextId, profileOf>>

RevokeKey(a, k) ==
    /\ profileOf[a] # 0 /\ bindings[k].id = profileOf[a] /\ bindings[k].active
    /\ bindings' = [bindings EXCEPT ![k].active = FALSE]
    /\ UNCHANGED <<nextId, profileOf, keysOf>>

ProfileNext ==
    \E a \in Owners, k \in DeviceKeys : RegisterProfile(a, k) \/ BindKey(a, k) \/ RevokeKey(a, k)

ProfileSpec == ProfileInit /\ [][ProfileNext]_profileVars

-----------------------------------------------------------------------------
(* Properties *)

ProfileTypeOK ==
    /\ nextId \in ProfileIds /\ Len(keysOf) = nextId - 1
    /\ profileOf \in [Owners -> 0..nextId - 1]
    /\ bindings \in [DeviceKeys -> [id : 0..nextId - 1, active : BOOLEAN]]
    /\ \A id \in 1..nextId - 1 : keysOf[id] \in Seq(DeviceKeys)

(* keysOf names every key ever bound to a profile, once, and no other: a key
   revoked and bound again is not listed twice. *)
KeysListedOnce ==
    \A id \in 1..nextId - 1 :
      /\ ToSet(keysOf[id]) = {k \in DeviceKeys : bindings[k].id = id}
      /\ IsInjective(keysOf[id])

(* "a key bound to another profile may not": the history of a key stays with
   the profile that bound it first, whoever revokes and binds it later. *)
KeyStaysWithItsProfile ==
    [][\A k \in DeviceKeys : bindings[k].id # 0 => bindings'[k].id = bindings[k].id]_profileVars

=============================================================================
