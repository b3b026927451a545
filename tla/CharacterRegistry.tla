-------------------------- MODULE CharacterRegistry --------------------------
(* contracts/ERC6699Registry.sol: a character's owner and controller, the
   stats its progressors write, and what it wears from other collections.  A
   progressor reads the stats and their nonce, works out the new ones, and
   writes them later. *)
EXTENDS Naturals, FiniteSets

CONSTANTS Characters, Users, Nobody, Progressors, Gear,
          MaxWins  \* bound: results a progressor settles

ASSUME CharacterAssumption ==
    /\ Nobody \notin Users \cup Characters /\ MaxWins \in Nat

VARIABLES
  owned,       \* owned[c]: ownerOf
  controller,  \* controller[c]: agentController
  stats,       \* stats[c]: the results counted in CoreStats
  statsNonce,
  worn,        \* worn[c]: what is equipped
  gearOwner,   \* gearOwner[g]: the owner an outside collection names
  draft,       \* draft[p]: the character p is working on, what it read of it
  settledFor   \* settledFor[c]: results whose progress() went through

characterVars == <<owned, controller, stats, statsNonce, worn, gearOwner, draft, settledFor>>

NoDraft == [of |-> Nobody, stats |-> 0, nonce |-> 0]
Zeroes == [c \in Characters |-> 0]

CharacterInit ==
    /\ owned = [c \in Characters |-> Nobody] /\ controller = owned
    /\ stats = Zeroes /\ statsNonce = Zeroes /\ settledFor = Zeroes
    /\ worn = [c \in Characters |-> {}]
    /\ gearOwner \in [Gear -> Users]
    /\ draft = [p \in Progressors |-> NoDraft]

(* The minter's stats, in which no result is counted, and fresh nonces. *)
Forge(c, a, m) ==
    /\ owned[c] = Nobody
    /\ owned' = [owned EXCEPT ![c] = a] /\ controller' = [controller EXCEPT ![c] = m]
    /\ stats' = [stats EXCEPT ![c] = 0] /\ statsNonce' = [statsNonce EXCEPT ![c] = 0]
    /\ UNCHANGED <<worn, gearOwner, draft, settledFor>>

(* A progressor's tool: reads now, writes later. *)
ReadStats(p, c) ==
    /\ draft[p] = NoDraft /\ settledFor[c] < MaxWins
    /\ draft' = [draft EXCEPT ![p] = [of |-> c, stats |-> stats[c], nonce |-> statsNonce[c]]]
    /\ UNCHANGED <<owned, controller, stats, statsNonce, worn, gearOwner, settledFor>>

Expected_Any(c, nonce) == TRUE
Expected(c, nonce) == statsNonce[c] = nonce

Progress(p) ==
    LET c == draft[p].of IN
    /\ draft[p] # NoDraft
    /\ draft' = [draft EXCEPT ![p] = NoDraft]
    /\ IF owned[c] # Nobody /\ Expected(c, draft[p].nonce)
       THEN /\ stats' = [stats EXCEPT ![c] = draft[p].stats + 1]
            /\ statsNonce' = [statsNonce EXCEPT ![c] = @ + 1]
            /\ settledFor' = [settledFor EXCEPT ![c] = @ + 1]
       ELSE UNCHANGED <<stats, statsNonce, settledFor>>
    /\ UNCHANGED <<owned, controller, worn, gearOwner>>

Controls(a, c) == a = controller[c] \/ a = owned[c]

SetController(a, c, to) ==
    /\ owned[c] = a /\ controller' = [controller EXCEPT ![c] = to]
    /\ UNCHANGED <<owned, stats, statsNonce, worn, gearOwner, draft, settledFor>>

TransferCharacter(a, c, to) ==
    /\ owned[c] = a /\ owned' = [owned EXCEPT ![c] = to]
    /\ UNCHANGED <<controller, stats, statsNonce, worn, gearOwner, draft, settledFor>>

MayWear(a, c, g) == gearOwner[g] = owned[c]

(* equip(): the item must be the character's owner's, whoever controls it. *)
Equip(a, c, g) ==
    /\ Controls(a, c) /\ MayWear(a, c, g)
    /\ worn' = [worn EXCEPT ![c] = {g}]
    /\ UNCHANGED <<owned, controller, stats, statsNonce, gearOwner, draft, settledFor>>

Unequip(a, c) ==
    /\ Controls(a, c) /\ worn' = [worn EXCEPT ![c] = {}]
    /\ UNCHANGED <<owned, controller, stats, statsNonce, gearOwner, draft, settledFor>>

SellGear(g, to) ==
    /\ gearOwner' = [gearOwner EXCEPT ![g] = to]
    /\ UNCHANGED <<owned, controller, stats, statsNonce, worn, draft, settledFor>>

CharacterNext ==
    \/ \E c \in Characters, a, b \in Users :
         \/ Forge(c, a, b) \/ SetController(a, c, b) \/ TransferCharacter(a, c, b)
         \/ Unequip(a, c) \/ \E g \in Gear : Equip(a, c, g)
    \/ \E p \in Progressors : Progress(p) \/ \E c \in Characters : ReadStats(p, c)
    \/ \E g \in Gear, to \in Users : SellGear(g, to)

CharacterSpec == CharacterInit /\ [][CharacterNext]_characterVars

-----------------------------------------------------------------------------
(* Properties *)

CharacterTypeOK ==
    /\ {owned, controller} \subseteq [Characters -> Users \cup {Nobody}]
    /\ {stats, statsNonce, settledFor} \subseteq [Characters -> Nat]
    /\ worn \in [Characters -> SUBSET Gear] /\ gearOwner \in [Gear -> Users]
    /\ \A p \in Progressors : draft[p].of \in Characters \cup {Nobody}

(* "two settlements cannot race each other" (progress): every result that went
   through is in the stats, although progressors read long before they write. *)
NoResultLost == \A c \in Characters : stats[c] = settledFor[c]

=============================================================================
