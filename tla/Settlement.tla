----------------------------- MODULE Settlement -----------------------------
(* One node's settlement of one match (node/settle.js): submissions of the
   ledger that are checked and replayed across awaits, the delta and the
   ledger kept in memory and on disk, the signatures and disputes of
   witnesses that arrive late or twice, the hour that freezes, and a restart
   that reads the disk.  A delta is an object of its submission: a signature
   verified across an await is written to the object it was read from, even
   when another has taken its place. *)
EXTENDS Naturals, FiniteSets

CONSTANTS Subs,       \* submissions of the match
          Kinds,      \* what a submission is: [ranked, placed, by, fixture]
          Witnesses,
          Registry,   \* this node reads a character registry
          MaxHour, MaxRestarts, MaxChecks  \* bounds; checks in flight at once

ASSUME SettlementAssumption ==
    /\ \A k \in Kinds : /\ {k.ranked, k.placed, k.fixture} \subseteq BOOLEAN
                        /\ k.by \in {"players", "attested", "relay", "host"}
    /\ IsFiniteSet(Witnesses) /\ Registry \in BOOLEAN
    /\ {MaxHour, MaxRestarts, MaxChecks} \subseteq Nat

Unsettled == "none"
Hours == 0..MaxHour

VARIABLES
  kindOf,    \* kindOf[s]: the kind of submission s
  phase,     \* phase[s]: how far the intake of s is
  hourOf,    \* hourOf[s]: the epoch written into the delta of s
  delta,     \* delta[s]: cosigners and disputes of the delta object of s
  current,   \* the submission whose delta is in memory
  onDisk,    \* the delta file: [of, cosigners, disputes]
  ledger,    \* the ledger file
  sent,      \* the submission whose settle went to the chain first
  letters,   \* what witnesses signed: <<witness, submission, agrees>>
  checking,  \* signatures being verified: <<letter, delta object>>
  frozen,    \* frozen[h]: the submission in the frozen hour h, or not frozen
  hour, restarts

settlementVars == <<kindOf, phase, hourOf, delta, current, onDisk, ledger, sent,
                    letters, checking, frozen, hour, restarts>>

NoFile == [of |-> Unsettled, cosigners |-> {}, disputes |-> {}]
Blank == [cosigners |-> {}, disputes |-> {}]

SettlementInit ==
    /\ kindOf \in [Subs -> Kinds]
    /\ \A s, t \in Subs : kindOf[s].ranked = kindOf[t].ranked
    /\ phase = [s \in Subs |-> "posted"]
    /\ hourOf = [s \in Subs |-> 0]
    /\ delta = [s \in Subs |-> Blank]
    /\ current = Unsettled /\ onDisk = NoFile /\ ledger = Unsettled /\ sent = Unsettled
    /\ letters = {} /\ checking = {}
    /\ frozen = [h \in Hours |-> "open"]
    /\ hour = 0 /\ restarts = 0

-----------------------------------------------------------------------------
(* Intake *)

(* What binding, hydration and provenance let through: a ranked result was
   placed by the mesh, its characters come from the registry and its players,
   a court or a relay this host trusts signed it. *)
Admits(k) == k.ranked => k.placed /\ (Registry => ~k.fixture) /\ k.by # "host"

Receive(s) ==
    /\ phase[s] = "posted"
    /\ phase' = [phase EXCEPT ![s] =
         IF current # Unsettled THEN "existing" ELSE IF Admits(kindOf[s]) THEN "replaying" ELSE "refused"]
    /\ UNCHANGED <<kindOf, hourOf, delta, current, onDisk, ledger, sent, letters, checking,
                   frozen, hour, restarts>>

(* The replay is done: the result, with its hour, is written down and signed. *)
Replayed(s) ==
    /\ phase[s] = "replaying"
    /\ phase' = [phase EXCEPT ![s] = "signing"]
    /\ hourOf' = [hourOf EXCEPT ![s] = hour]
    /\ UNCHANGED <<kindOf, delta, current, onDisk, ledger, sent, letters, checking,
                   frozen, hour, restarts>>

(* finish(): ledger, then delta, then memory, then the chain when the result is
   ranked; nothing asks again whether the match has been settled meanwhile.
   The contract keeps the first settle it gets. *)
Finish(s) ==
    /\ phase[s] = "signing"
    /\ phase' = [phase EXCEPT ![s] = "settled"]
    /\ ledger' = s /\ current' = s
    /\ onDisk' = [of |-> s, cosigners |-> {}, disputes |-> {}]
    /\ sent' = IF sent = Unsettled /\ kindOf[s].ranked /\ kindOf[s].placed THEN s ELSE sent
    /\ UNCHANGED <<kindOf, hourOf, delta, letters, checking, frozen, hour, restarts>>

-----------------------------------------------------------------------------
(* Witnesses *)

(* A witness fetches the delta as it stands, recomputes it and signs that
   commitment, or a dispute of it; the letter may arrive any time, or twice. *)
Sign(w) ==
    /\ current # Unsettled /\ \A l \in letters : l[1] # w \/ l[2] # current
    /\ \E agrees \in BOOLEAN : letters' = letters \cup {<<w, current, agrees>>}
    /\ UNCHANGED <<kindOf, phase, hourOf, delta, current, onDisk, ledger, sent, checking,
                   frozen, hour, restarts>>

Genuine_Any(l, s) == TRUE
Genuine(l, s) == l[2] = s  \* a signature over this delta's commitment

Open(l) ==
    /\ l \in letters /\ current # Unsettled /\ Cardinality(checking) < MaxChecks
    /\ checking' = checking \cup {<<l, current>>}
    /\ UNCHANGED <<kindOf, phase, hourOf, delta, current, onDisk, ledger, sent, letters,
                   frozen, hour, restarts>>

(* acceptCosign, acceptDispute: what was read before the verification is what
   is changed and written after it. *)
Accept(c) ==
    LET l == c[1]  s == c[2] IN
    /\ c \in checking
    /\ checking' = checking \ {c}
    /\ IF Genuine(l, s)
       THEN /\ delta' = IF l[3] THEN [delta EXCEPT ![s].cosigners = @ \cup {l[1]}]
                                ELSE [delta EXCEPT ![s].disputes = @ \cup {l[1]}]
            /\ onDisk' = IF delta'[s] = delta[s] THEN onDisk
                         ELSE [of |-> s, cosigners |-> delta'[s].cosigners, disputes |-> delta'[s].disputes]
       ELSE UNCHANGED <<delta, onDisk>>
    /\ UNCHANGED <<kindOf, phase, hourOf, current, ledger, sent, letters, frozen, hour, restarts>>

(* verification(), officialOf(): what the standings count. *)
Verification_Lenient(d, k) ==
    IF d.disputes # {} /\ Cardinality(d.disputes) > Cardinality(d.cosigners) THEN "disputed"
    ELSE IF \/ k.by \notin {"players", "attested"} \/ d.cosigners = {}
            \/ Registry /\ k.ranked /\ k.fixture THEN "unverified"
    ELSE "verified"

Verification(d, k) ==
    IF d.disputes # {} /\ Cardinality(d.disputes) >= Cardinality(d.cosigners) THEN "disputed"
    ELSE IF \/ k.by \notin {"players", "attested"} \/ d.cosigners = {}
            \/ Registry /\ k.ranked /\ k.fixture THEN "unverified"
    ELSE "verified"

Official(s) ==
    /\ kindOf[s].ranked /\ kindOf[s].placed /\ kindOf[s].by = "players"
    /\ Verification(delta[s], kindOf[s]) = "verified"

-----------------------------------------------------------------------------
(* Hours, and a restart *)

(* The hour freezes a quarter of an hour after its end: the signing of a
   result whose hour is written down is long over by then. *)
Rows(h) == IF current # Unsettled /\ hourOf[current] = h THEN current ELSE Unsettled
MayFreeze_Again(h) == current # Unsettled
MayFreeze(h) == frozen[h] = "open" /\ current # Unsettled /\ hourOf[current] = h
Freeze(h) ==
    /\ h < hour /\ MayFreeze(h)
    /\ \A s \in Subs : ~(phase[s] = "signing" /\ hourOf[s] = h)
    /\ frozen' = [frozen EXCEPT ![h] = Rows(h)]
    /\ UNCHANGED <<kindOf, phase, hourOf, delta, current, onDisk, ledger, sent, letters,
                   checking, hour, restarts>>

NextHour ==
    /\ hour < MaxHour /\ hour' = hour + 1
    /\ UNCHANGED <<kindOf, phase, hourOf, delta, current, onDisk, ledger, sent, letters,
                   checking, frozen, restarts>>

(* The node stops and reads its files; a stop inside finish() may leave the
   ledger of a delta that was not written. *)
RestartNode ==
    /\ restarts < MaxRestarts /\ restarts' = restarts + 1
    /\ \/ UNCHANGED ledger
       \/ \E s \in Subs : phase[s] = "signing" /\ ledger' = s
    /\ current' = onDisk.of
    /\ delta' = [s \in Subs |-> IF s = onDisk.of THEN [cosigners |-> onDisk.cosigners, disputes |-> onDisk.disputes]
                                ELSE delta[s]]
    /\ phase' = [s \in Subs |-> IF phase[s] \in {"replaying", "signing"} THEN "posted" ELSE phase[s]]
    /\ checking' = {}
    /\ UNCHANGED <<kindOf, hourOf, onDisk, sent, letters, frozen, hour>>

SettlementNext ==
    \/ \E s \in Subs : Receive(s) \/ Replayed(s) \/ Finish(s)
    \/ \E w \in Witnesses : Sign(w)
    \/ \E l \in letters : Open(l)
    \/ \E c \in checking : Accept(c)
    \/ \E h \in Hours : Freeze(h)
    \/ NextHour \/ RestartNode

SettlementSpec == SettlementInit /\ [][SettlementNext]_settlementVars

-----------------------------------------------------------------------------
(* Properties *)

SettlementTypeOK ==
    /\ kindOf \in [Subs -> Kinds]
    /\ phase \in [Subs -> {"posted", "replaying", "signing", "settled", "existing", "refused"}]
    /\ hourOf \in [Subs -> Hours] /\ hour \in Hours /\ restarts \in 0..MaxRestarts
    /\ delta \in [Subs -> [cosigners : SUBSET Witnesses, disputes : SUBSET Witnesses]]
    /\ {current, onDisk.of, ledger, sent} \subseteq Subs \cup {Unsettled}
    /\ letters \subseteq Witnesses \X Subs \X BOOLEAN
    /\ checking \subseteq letters \X Subs
    /\ frozen \in [Hours -> Subs \cup {"open", Unsettled}]

(* Every co-signature and dispute a delta counts, in memory or on disk, is a
   letter its witness signed over that very delta, however late it came and
   whatever replaced the delta while it was checked. *)
CountsOnlyItsWitnesses ==
    \A s \in Subs :
      /\ \A w \in delta[s].cosigners : <<w, s, TRUE>> \in letters
      /\ \A w \in delta[s].disputes : <<w, s, FALSE>> \in letters

(* A result in the official standings was placed, signed by its players, never
   by fixture characters where a registry is read, and more of its witnesses
   agree than object. *)
OfficialIsEarned ==
    \A s \in Subs : phase[s] = "settled" /\ Official(s) =>
      /\ Admits(kindOf[s]) /\ (Registry => ~kindOf[s].fixture)
      /\ Cardinality({w \in Witnesses : <<w, s, TRUE>> \in letters})
           > Cardinality(delta[s].disputes)

(* A ranked result on its way to the chain rests on somebody's signature: the
   host's word alone never reaches the contract. *)
SentIsSigned == sent # Unsettled => kindOf[sent].by # "host" /\ kindOf[sent].placed

(* A frozen hour is final: its rows, whose root may be proposed already, never
   change again, across late signatures, settlements and restarts. *)
FrozenStands ==
    [][\A h \in Hours : frozen[h] # "open" => frozen'[h] = frozen[h]]_settlementVars

(* "The ledger served by GET /ledger/:id is exactly `stored`: a witness hashes
   what it fetched and compares with the chain's ledgerHash" (finish): the
   ledger file of a match on chain is the one that was settled there. *)
ServedIsOnChain ==
    sent # Unsettled => ledger = sent

=============================================================================
