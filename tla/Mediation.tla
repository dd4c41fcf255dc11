------------------------------ MODULE Mediation ------------------------------
(***************************************************************************)
(* The mediation boundary of siphonophore_core: Gate (mediation.py) mints  *)
(* Orders, Authorities and Decisions, Policy (policy.py) answers for a     *)
(* kind, and Executor (execution.py) verifies a Decision before a backend  *)
(* runs.  Gate keeps no ledger: what the system remembers of a grant is    *)
(* the object a caller holds, so the state here is the set of objects      *)
(* minted so far and the sequence of backend runs.                         *)
(*                                                                         *)
(* Callers present objects back to Gate and Executor.  An object that is   *)
(* presented has arbitrary fields and the token of any object Gate minted: *)
(* one secret signs the three families.  HMAC is idealised: Hmac(text) is  *)
(* one value for each text and only Gate produces it.                      *)
(*                                                                         *)
(* The text Gate signs is its fields joined by ":", unescaped, and nothing *)
(* keeps a ":" out of a field.  So a string is modelled as the sequence of *)
(* pieces it splits into at ":", joining strings is concatenation, and two *)
(* objects may have one text.  The variable separated remembers whether    *)
(* every field Gate and Executor met so far kept to its place in the text; *)
(* what a token vouches for is stated under that condition.                *)
(***************************************************************************)
EXTENDS Integers, Sequences, FiniteSets

CONSTANTS
  Words, Empty,  \* what identifiers hold between separators; the empty string
  Principals, Kinds, Consequences, Classes, Artifacts,
  IntentIds, OrderIds, Issuers, AuthorityIds,
  PlainKinds,    \* the kinds with neither ":" nor "," in them
  Joined,        \* ",".join(sorted(kinds)), tabulated: set of kinds -> string
  None,          \* Python's None: no artifact, no authority, no parent
  Depths,        \* delegation budgets an issuer may write into an Order
  Intents,       \* the intents callers submit and present
  Evaluate,      \* Policy.evaluate, tabulated: <<kind, consequence>> -> answer
  NeedsArtifact, \* classes whose backend refuses an Intent without code
  MaxOrders, MaxDecisions, MaxRuns  \* bounds on what one behaviour mints

\* A number, a truth value or a digest, once formatted, has no ":" in it.
Pieces == Words \cup {Empty} \cup [num: Int] \cup [bool: BOOLEAN] \cup [sha256: Artifacts]

Strings == Seq(Pieces) \ {<<>>}

\* A string that is not empty and holds no separator.
Separate(string) == Len(string) = 1 /\ string # <<Empty>>

ASSUME DepthsAssumption == Depths \subseteq Int

ASSUME NoneAssumption == None \notin Artifacts /\ None \notin Strings

ASSUME StringsAssumption ==
  /\ Principals \subseteq Strings
  /\ Kinds \subseteq Strings
  /\ Classes \subseteq Strings
  /\ IntentIds \subseteq Strings
  /\ OrderIds \subseteq Strings
  /\ Issuers \subseteq Strings
  /\ AuthorityIds \subseteq Strings

\* Sets of plain kinds are joined into one piece, and none into the same as another.
ASSUME JoinedAssumption ==
  /\ Joined \in [SUBSET Kinds -> Strings]
  /\ PlainKinds \subseteq Kinds
  /\ \A s \in SUBSET PlainKinds : Len(Joined[s]) = 1
  /\ \A s, t \in SUBSET PlainKinds : Joined[s] = Joined[t] => s = t

ASSUME IntentsAssumption ==
  Intents \subseteq [intent_id: IntentIds, principal_id: Principals, kind: Kinds,
                     consequence: Consequences, artifact_code: Artifacts \cup {None}]

ASSUME EvaluateAssumption ==
  Evaluate \in [Kinds \X Consequences -> [permitted: BOOLEAN, execution_class: Classes]]

VARIABLES
  orders,       \* Orders Gate.issue_order returned
  authorities,  \* Authorities Gate.grant_root_authority and Gate.delegate returned
  decisions,    \* Decisions Gate.submit returned
  backends,     \* execution classes with a backend in Executor._backends
  ran,          \* history: backend.run calls, in order
  separated     \* history: no field that Gate or Executor met so far left its place

vars == <<orders, authorities, decisions, backends, ran, separated>>

-----------------------------------------------------------------------------
(* Tokens.                                                                 *)

Hmac(text) == [hmac |-> text]

Number(n) == <<[num |-> n]>>
Truth(b)  == <<[bool |-> b]>>
OrEmpty(x) == IF x = None THEN <<Empty>> ELSE x    \* x or ""
OrNone(string) == IF string = <<Empty>> THEN None ELSE string  \* string or None

digest_of(code) == <<[sha256 |-> code]>>
EmptyDigest == <<Empty>>
artifact_digest(i) ==
  IF i.artifact_code = None THEN EmptyDigest ELSE digest_of(i.artifact_code)
Digests == {digest_of(c) : c \in Artifacts} \cup {EmptyDigest}

order_canonical(order_id, issuer, kinds, depth) ==
  order_id \o issuer \o Joined[kinds] \o Number(depth)

authority_canonical(authority_id, principal_id, order_id, parent, kinds, depth) ==
  authority_id \o principal_id \o order_id \o OrEmpty(parent) \o Joined[kinds]
    \o Number(depth)

canonical(intent_id, principal_id, kind, permitted, class, digest, authority_id, order_id) ==
  intent_id \o principal_id \o kind \o Truth(permitted) \o class \o digest
    \o OrEmpty(authority_id) \o OrEmpty(order_id)

verify_order(o) ==
  o.token = Hmac(order_canonical(o.order_id, o.issuer, o.granted_kinds,
                                 o.max_delegation_depth))

\* Mutant: the kinds are left out of the authority's canonical form.
verify_authority_without_kinds(a) ==
  \E kinds \in SUBSET Kinds :
    a.token = Hmac(authority_canonical(a.authority_id, a.principal_id, a.order_id,
                     a.parent_authority_id, kinds, a.remaining_delegation_depth))

verify_authority(a) ==
  a.token = Hmac(authority_canonical(a.authority_id, a.principal_id, a.order_id,
                   a.parent_authority_id, a.allowed_kinds, a.remaining_delegation_depth))

verify(d) ==
  d.token = Hmac(canonical(d.intent_id, d.principal_id, d.kind, d.permitted,
                   d.execution_class, d.artifact_digest, d.authority_id, d.order_id))

-----------------------------------------------------------------------------
(* Objects.                                                                *)

OrderObjects(tokens) ==
  [order_id: OrderIds, issuer: Issuers, granted_kinds: SUBSET Kinds,
   max_delegation_depth: Depths, token: tokens]

AuthorityObjects(depths, tokens) ==
  [authority_id: AuthorityIds, principal_id: Principals, order_id: OrderIds,
   parent_authority_id: AuthorityIds \cup {None}, allowed_kinds: SUBSET Kinds,
   remaining_delegation_depth: depths, token: tokens]

DecisionObjects(tokens) ==
  [intent_id: IntentIds, principal_id: Principals, kind: Kinds, permitted: BOOLEAN,
   execution_class: Classes, artifact_digest: Digests,
   authority_id: AuthorityIds \cup {None}, order_id: OrderIds \cup {None}, token: tokens]

Tokens == {x.token : x \in orders \cup authorities \cup decisions}

\* Depths that occur in the system: a budget, or what a delegation left of one.
LiveDepths == Depths \cup {a.remaining_delegation_depth : a \in authorities}

PresentedOrders      == OrderObjects(Tokens)
PresentedAuthorities == AuthorityObjects(LiveDepths, Tokens)
PresentedDecisions   == DecisionObjects(Tokens)

\* The fields keep to their places in the text.  The issuer may hold one separator,
\* as the repository's own issuers do ("operator:alice").
SeparateOrder(o) ==
  /\ Separate(o.order_id)
  /\ Len(o.issuer) <= 2
  /\ o.granted_kinds \subseteq PlainKinds

SeparateAuthority(a) ==
  /\ Separate(a.authority_id)
  /\ Separate(a.principal_id)
  /\ Separate(a.order_id)
  /\ a.parent_authority_id # None => Separate(a.parent_authority_id)
  /\ a.allowed_kinds \subseteq PlainKinds

SeparateDecision(d) ==
  /\ Separate(d.intent_id)
  /\ Separate(d.principal_id)
  /\ Separate(d.kind)
  /\ Len(d.execution_class) = 1
  /\ d.authority_id # None => Separate(d.authority_id)
  /\ d.order_id # None => Separate(d.order_id)

\* uuid4().hex: an id no object has, of hexadecimal digits.
Fresh(id) == Separate(id) /\ \A a \in authorities : a.authority_id # id

-----------------------------------------------------------------------------
(* Gate.                                                                   *)

OrderOf(id, issuer, kinds, depth) ==
  [order_id |-> id, issuer |-> issuer, granted_kinds |-> kinds,
   max_delegation_depth |-> depth,
   token |-> Hmac(order_canonical(id, issuer, kinds, depth))]

issue_order(id, issuer, kinds, depth) ==
  LET new == OrderOf(id, issuer, kinds, depth)
  IN /\ Cardinality(orders) < MaxOrders
     /\ orders' = orders \cup {new}
     /\ separated' = (separated /\ SeparateOrder(new))
     /\ UNCHANGED <<authorities, decisions, backends, ran>>

AuthorityOf(id, principal, order_id, parent, kinds, depth) ==
  [authority_id |-> id, principal_id |-> principal, order_id |-> order_id,
   parent_authority_id |-> parent, allowed_kinds |-> kinds,
   remaining_delegation_depth |-> depth,
   token |-> Hmac(authority_canonical(id, principal, order_id, parent, kinds, depth))]

\* allowed_kinds=None stands for the order's own kinds, one of the choices here.
grant_root_authority(o) ==
  /\ verify_order(o)
  /\ \E id \in AuthorityIds, principal \in Principals, kinds \in SUBSET Kinds :
       LET new == AuthorityOf(id, principal, o.order_id, None, kinds,
                              o.max_delegation_depth)
       IN /\ kinds \subseteq o.granted_kinds
          /\ Fresh(id)
          /\ authorities' = authorities \cup {new}
          /\ separated' = (separated /\ SeparateOrder(o) /\ SeparateAuthority(new))
  /\ UNCHANGED <<orders, decisions, backends, ran>>

\* Mutant: the budget is handed on unspent.
Derives_without_spending(p) ==
  /\ \E id \in AuthorityIds, principal \in Principals, kinds \in SUBSET Kinds :
       LET new == AuthorityOf(id, principal, p.order_id, p.authority_id, kinds,
                              p.remaining_delegation_depth)
       IN /\ kinds \subseteq p.allowed_kinds
          /\ Fresh(id)
          /\ authorities' = authorities \cup {new}
          /\ separated' = (separated /\ SeparateAuthority(p) /\ SeparateAuthority(new))
  /\ UNCHANGED <<orders, decisions, backends, ran>>

\* A narrower Authority made from p under a fresh id, with one step less to delegate.
Derives(p) ==
  /\ \E id \in AuthorityIds, principal \in Principals, kinds \in SUBSET Kinds :
       LET new == AuthorityOf(id, principal, p.order_id, p.authority_id, kinds,
                              p.remaining_delegation_depth - 1)
       IN /\ kinds \subseteq p.allowed_kinds
          /\ Fresh(id)
          /\ authorities' = authorities \cup {new}
          /\ separated' = (separated /\ SeparateAuthority(p) /\ SeparateAuthority(new))
  /\ UNCHANGED <<orders, decisions, backends, ran>>

delegate(p) ==
  verify_authority(p) /\ p.remaining_delegation_depth > 0 /\ Derives(p)

evaluate(i) == Evaluate[<<i.kind, i.consequence>>]

DecisionOf(i, permitted, authority_id, order_id) ==
  LET class  == evaluate(i).execution_class
      digest == artifact_digest(i)
  IN [intent_id |-> i.intent_id, principal_id |-> i.principal_id, kind |-> i.kind,
      permitted |-> permitted, execution_class |-> class, artifact_digest |-> digest,
      authority_id |-> authority_id, order_id |-> order_id,
      token |-> Hmac(canonical(i.intent_id, i.principal_id, i.kind, permitted, class,
                               digest, authority_id, order_id))]

\* Mutant: the ids of no authority and no order stay "" in the Decision.
UngroundedDecision_with_empty_ids(i) ==
  DecisionOf(i, evaluate(i).permitted, OrEmpty(None), OrEmpty(None))

\* What Gate.submit returns for an intent alone.
UngroundedDecision(i) == DecisionOf(i, evaluate(i).permitted, None, None)

\* Mutant: the scope of the authority is not consulted.
AuthorizedDecision_unscoped(i, a) ==
  DecisionOf(i, evaluate(i).permitted, OrNone(a.authority_id), OrNone(a.order_id))

\* What Gate.submit returns for an intent and an authority it accepts.
AuthorizedDecision(i, a) ==
  DecisionOf(i, evaluate(i).permitted /\ i.kind \in a.allowed_kinds,
             OrNone(a.authority_id), OrNone(a.order_id))

\* The checks whose failure raises GateViolation before policy is consulted.
MayExercise(i, a) == i.principal_id = a.principal_id /\ verify_authority(a)

submit(i) ==
  LET new == UngroundedDecision(i)
  IN /\ Cardinality(decisions) < MaxDecisions
     /\ decisions' = decisions \cup {new}
     /\ separated' = (separated /\ SeparateDecision(new))
     /\ UNCHANGED <<orders, authorities, backends, ran>>

submit_under(i, a) ==
  LET new == AuthorizedDecision(i, a)
  IN /\ Cardinality(decisions) < MaxDecisions
     /\ MayExercise(i, a)
     /\ decisions' = decisions \cup {new}
     /\ separated' = (separated /\ SeparateAuthority(a) /\ SeparateDecision(new))
     /\ UNCHANGED <<orders, authorities, backends, ran>>

-----------------------------------------------------------------------------
(* Executor.                                                               *)

Corresponds(d, i) == d.intent_id = i.intent_id /\ d.kind = i.kind

\* Mutant: a decision made without code vouches for any code.
ProvenanceHolds_when_digested(d, i) ==
  i.artifact_code # None /\ d.artifact_digest # EmptyDigest =>
    digest_of(i.artifact_code) = d.artifact_digest

ProvenanceHolds(d, i) ==
  i.artifact_code # None => digest_of(i.artifact_code) = d.artifact_digest

\* Mutant: the token is not verified.
Accepts_unverified(d, i) ==
  /\ Corresponds(d, i)
  /\ d.permitted
  /\ ProvenanceHolds(d, i)
  /\ d.execution_class \in backends
  /\ d.execution_class \in NeedsArtifact => i.artifact_code # None

\* Executor.execute reaches backend.run, and the backend accepts the call.
Accepts(d, i) ==
  /\ Corresponds(d, i)
  /\ verify(d)
  /\ d.permitted
  /\ ProvenanceHolds(d, i)
  /\ d.execution_class \in backends
  /\ d.execution_class \in NeedsArtifact => i.artifact_code # None

\* Any other call raises (GateViolation and its subclasses, or the backend's
\* ExecutionError for a missing artifact) and leaves nothing behind.
execute(d, i) ==
  /\ Accepts(d, i)
  /\ Len(ran) < MaxRuns
  /\ ran' = Append(ran, [decision |-> d, intent |-> i])
  /\ separated' = (separated /\ SeparateDecision(d))
  /\ UNCHANGED <<orders, authorities, decisions, backends>>

register_backend(class) ==
  /\ class \notin backends
  /\ backends' = backends \cup {class}
  /\ UNCHANGED <<orders, authorities, decisions, ran, separated>>

-----------------------------------------------------------------------------

Init ==
  /\ orders = {}
  /\ authorities = {}
  /\ decisions = {}
  /\ backends = {}
  /\ ran = <<>>
  /\ separated = TRUE

Next ==
  \/ \E id \in OrderIds, issuer \in Issuers, kinds \in SUBSET Kinds, depth \in Depths :
       issue_order(id, issuer, kinds, depth)
  \/ \E o \in PresentedOrders : grant_root_authority(o)
  \/ \E p \in PresentedAuthorities : delegate(p)
  \/ \E i \in Intents : submit(i)
  \/ \E i \in Intents, a \in PresentedAuthorities : submit_under(i, a)
  \/ \E d \in PresentedDecisions, i \in Intents : execute(d, i)
  \/ \E class \in Classes : register_backend(class)

Spec == Init /\ [][Next]_vars
-----------------------------------------------------------------------------
(* Properties.                                                             *)

SignedTexts == [hmac: Strings]

Runs == [decision: DecisionObjects(SignedTexts), intent: Intents]

\* Every variable holds objects of the shape the dataclasses declare.
TypeOK ==
  /\ orders \subseteq OrderObjects(SignedTexts)
  /\ authorities \subseteq AuthorityObjects(Int, SignedTexts)
  /\ decisions \subseteq DecisionObjects(SignedTexts)
  /\ backends \subseteq Classes
  /\ ran \in Seq(Runs)
  /\ separated \in BOOLEAN

\* a rests on an Order Gate issued: its kinds and its remaining budget are within
\* what that Order granted.
GroundedIn(a, o) ==
  /\ o.order_id = a.order_id
  /\ a.allowed_kinds \subseteq o.granted_kinds
  /\ a.remaining_delegation_depth <= o.max_delegation_depth

\* However long the chain of grants and delegations, and whatever altered or foreign
\* objects callers presented on the way, no Authority exceeds the Order its order_id
\* names (the induction Gate.delegate's docstring appeals to, mediation.py:207), as
\* long as every field has kept to its place in the texts Gate signs.
AttenuatedFromOrder ==
  separated => \A a \in authorities : \E o \in orders : GroundedIn(a, o)

\* A delegated Authority has a parent Gate minted, narrower or equal in kinds, of
\* the same Order, from which exactly one step of the budget was spent.
DelegatedFrom(a, p) ==
  /\ p.authority_id = a.parent_authority_id
  /\ p.order_id = a.order_id
  /\ a.allowed_kinds \subseteq p.allowed_kinds
  /\ p.remaining_delegation_depth > 0
  /\ a.remaining_delegation_depth = p.remaining_delegation_depth - 1

\* authority_id names one Authority only, and while fields keep to their places every
\* Authority's parent_authority_id leads to a minted Authority it was validly derived
\* from: the lineage an operator reads off an object is the lineage that happened.
SoundLineage ==
  /\ \A a, b \in authorities : a.authority_id = b.authority_id => a = b
  /\ separated =>
       \A a \in authorities :
         a.parent_authority_id # None => \E p \in authorities : DelegatedFrom(a, p)

\* A backend acts on a yes of the class it is registered for, and while fields keep to
\* their places that Decision was minted by Gate exactly as presented: nothing altered
\* after minting or signed for something else reaches a backend (execution.py:272).
RanAsMinted ==
  \A n \in DOMAIN ran :
    /\ ran[n].decision.permitted
    /\ ran[n].decision.execution_class \in backends
    /\ separated => ran[n].decision \in decisions

\* A Decision answers an intent that was submitted: same id, kind, principal and code.
Answers(d, j) ==
  /\ j.intent_id = d.intent_id
  /\ j.kind = d.kind
  /\ j.principal_id = d.principal_id
  /\ d.artifact_digest = artifact_digest(j)

\* The code a backend ran has the digest its Decision names, and while fields keep to
\* their places Gate hashed that code when it decided on an intent of the same id, kind
\* and principal, although the Intent presented to execute is not the object that was
\* submitted (DESIGN.md section 8).
RanAuthorizedArtifact ==
  \A n \in DOMAIN ran :
    LET d == ran[n].decision
        i == ran[n].intent
    IN /\ i.artifact_code # None => d.artifact_digest = digest_of(i.artifact_code)
       /\ d.execution_class \in NeedsArtifact => i.artifact_code # None
       /\ separated => \E j \in Intents :
                         /\ j.intent_id = i.intent_id
                         /\ j.kind = i.kind
                         /\ Answers(d, j)

\* What ran under an Authority was of a kind that the Order at the root of that
\* Authority's chain granted, exercised by the principal the Authority names: the
\* guarantee a chain Order -> Authority -> ... -> Decision -> backend gives while
\* fields keep to their places.
RanWithinOrder ==
  separated =>
    \A n \in DOMAIN ran :
      LET d == ran[n].decision
      IN d.authority_id # None =>
           \E a \in authorities, o \in orders :
             /\ a.authority_id = d.authority_id
             /\ a.principal_id = d.principal_id
             /\ d.order_id = o.order_id
             /\ GroundedIn(a, o)
             /\ d.kind \in a.allowed_kinds
             /\ d.kind \in o.granted_kinds

\* authority.py:67: "A Decision authorizes one specific Intent, once".
DecisionSpentOnce ==
  \A m, n \in DOMAIN ran : ran[m].decision = ran[n].decision => m = n
=============================================================================
