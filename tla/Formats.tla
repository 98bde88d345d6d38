------------------------------- MODULE Formats -------------------------------
(***************************************************************************)
(* The format validators of libs/credential-ports: validateSchema and      *)
(* validateAttributes of AnonCreds, SD-JWT VC and W3C VC (JSON-LD), and the *)
(* registry that finds them.  The mDL validator always throws.             *)
(*                                                                         *)
(* validateAttributes walks over the offered attributes; one step of the   *)
(* machine is one turn of that loop, so that its verdict can be compared   *)
(* with what the rules of the class comments say of the whole offer.       *)
(* A value is known by what JSON.parse makes of it, a name by its identity.*)
(***************************************************************************)
EXTENDS Integers, Sequences, FiniteSets

CONSTANTS
    FNames,      \* attribute and claim names
    FTypes,      \* claim types a schema may declare
    FValues,     \* kinds of raw values: see FMatchesClaimType
    FMaxOffer    \* bound on the number of offered attributes

FClaimTypes == {"string", "number", "boolean", "array", "object"}

ASSUME FAssumption == FMaxOffer \in Nat /\ FTypes \subseteq FClaimTypes

VARIABLE fRun    \* one call of validateAttributes

------------------------------------------------------------------------------
(* Schemas.  "broken" stands for a member of the wrong shape: no string array,
   no object, an unsupported type. *)

FBroken == "broken"

FAnonSchemas ==
    [format : {"anoncreds"}, titled : BOOLEAN, broken : BOOLEAN,
     names : {<<>>} \cup {<<a>> : a \in FNames} \cup {<<a, b>> : a, b \in FNames},
     optional : SUBSET FNames]

FClaimMaps == UNION {[S -> FTypes \cup {FBroken}] : S \in SUBSET FNames}

FSdJwtSchemas ==
    [format : {"sd-jwt-vc"}, vct : BOOLEAN, flags : BOOLEAN, claims : FClaimMaps]

FW3cSchemas ==
    [format : {"jsonld"}, context : SUBSET {"base", "allowed", "foreign"},
     type : SUBSET {"VerifiableCredential", "specific"}, claims : FClaimMaps]

FSchemas == FAnonSchemas \cup FSdJwtSchemas \cup FW3cSchemas

\* validateContext: every URL in the allowed list, a base one among them.
FContextOk(urls) ==
    urls # {} /\ urls \subseteq {"base", "allowed"} /\ "base" \in urls

\* validateType: the base type and a specific one.
FTypeOk(types) == "VerifiableCredential" \in types /\ types # {"VerifiableCredential"}

FRangeOf(s) == {s[i] : i \in DOMAIN s}

\* validateAttrNames, validateSchemaNameAndVersion, validateOptionalAttributes.
FAnonSchemaOk(s) ==
    /\ s.titled
    /\ ~s.broken /\ s.names # <<>>
    /\ Cardinality(FRangeOf(s.names)) = Len(s.names)
    /\ s.optional \subseteq FRangeOf(s.names)

\* validateClaims and validateCredentialSubject.
FClaimsOk(claims) ==
    DOMAIN claims # {} /\ \A n \in DOMAIN claims : claims[n] \in FClaimTypes

\* "flags": every disclosable flag of the claims is a boolean or absent.
FSdJwtSchemaOk(s) == s.vct /\ s.flags /\ FClaimsOk(s.claims)

FW3cSchemaOk(s) == FContextOk(s.context) /\ FTypeOk(s.type) /\ FClaimsOk(s.claims)

\* validateSchema of the validator registered for the format finds no issue.
FSchemaOk(s) ==
    CASE s.format = "anoncreds" -> FAnonSchemaOk(s)
      [] s.format = "sd-jwt-vc" -> FSdJwtSchemaOk(s)
      [] s.format = "jsonld"    -> FW3cSchemaOk(s)

------------------------------------------------------------------------------
(* validateAttributes *)

\* isNonEmptyStringArray(attr_names); readValidClaims and
\* readValidCredentialSubject.
FReadable(s) ==
    IF s.format = "anoncreds" THEN ~s.broken /\ s.names # <<>>
    ELSE DOMAIN s.claims # {} /\ \A n \in DOMAIN s.claims : s.claims[n] \in FClaimTypes

FKnown(s) == IF s.format = "anoncreds" THEN FRangeOf(s.names) ELSE DOMAIN s.claims

FRequired(s) == IF s.format = "anoncreds" THEN FKnown(s) \ s.optional ELSE FKnown(s)

\* matchesClaimType: a string claim takes any text; for the others the value is
\* known by what JSON.parse makes of it, "infinite" being a number too large.
FMatchesClaimType(value, type) == type = "string" \/ value = type

\* Any value is a string on the wire, which is all AnonCreds asks for.
FValueOk(s, a) == s.format = "anoncreds" \/ FMatchesClaimType(a.value, s.claims[a.name])

\* MUTANT of FEntryIssue: a repeated name is not looked for.
FEntryIssue_Repeats(s, seen, a) ==
    IF a.name \notin FKnown(s) THEN {<<a.name, "undeclared">>}
    ELSE IF ~FValueOk(s, a) THEN {<<a.name, "type">>}
    ELSE {}

\* The if ... else if chain of one turn of the loop.
FEntryIssue(s, seen, a) ==
    IF a.name \in seen THEN {<<a.name, "duplicate">>}
    ELSE IF a.name \notin FKnown(s) THEN {<<a.name, "undeclared">>}
    ELSE IF ~FValueOk(s, a) THEN {<<a.name, "type">>}
    ELSE {}

FMissing(s, seen) == {<<n, "missing">> : n \in FRequired(s) \ seen}

FIdle == [at |-> "idle", schema |-> [format |-> "none"], offer |-> <<>>, next |-> 1,
          seen |-> {}, issues |-> {}]

FInit == fRun = FIdle

\* The offer is not looked at when the schema cannot be read; nor do the loop's
\* turns depend on the rest of the schema, so those are tried on one offer.
FBegin(s, offer) ==
    /\ (~FReadable(s) \/ ~(FSchemaOk(s) \/ s.format = "anoncreds")) => offer = <<>>
    /\ fRun' = [FIdle EXCEPT !.schema = s, !.offer = offer,
                  !.at = IF FReadable(s) THEN "loop" ELSE "refused"]

\* The walk: one attribute, or, after the last, the required names not seen.
FTurn ==
    LET a == fRun.offer[fRun.next]
    IN  /\ fRun.at = "loop" /\ fRun.next <= Len(fRun.offer)
        /\ fRun' = [fRun EXCEPT !.next = @ + 1, !.seen = @ \cup {a.name},
                      !.issues = @ \cup FEntryIssue(fRun.schema, fRun.seen, a)]

FFinish ==
    /\ fRun.at = "loop" /\ fRun.next > Len(fRun.offer)
    /\ fRun' = [fRun EXCEPT !.at = "done", !.issues = @ \cup FMissing(fRun.schema, fRun.seen)]

FOffers == UNION {[1 .. n -> [name : FNames, value : FValues]] : n \in 0 .. FMaxOffer}

FNext ==
    \/ fRun = FIdle /\ \E s \in FSchemas, offer \in FOffers : FBegin(s, offer)
    \/ FTurn
    \/ FFinish

FSpec == FInit /\ [][FNext]_fRun

------------------------------------------------------------------------------
(* Properties *)

\* A run of validateAttributes has the shape of its loop.
FTypeOK ==
    /\ fRun.at \in {"idle", "loop", "done", "refused"}
    /\ fRun.next \in 1 .. FMaxOffer + 1
    /\ fRun.seen = {fRun.offer[i].name : i \in 1 .. fRun.next - 1}

\* The rules as the classes state them: every required name, no undeclared one,
\* none twice, and each value of its declared type.
FConforms(s, offer) ==
    /\ \A i, j \in DOMAIN offer : offer[i].name = offer[j].name => i = j
    /\ \A i \in DOMAIN offer : offer[i].name \in FKnown(s)
    /\ \A n \in FRequired(s) : \E i \in DOMAIN offer : offer[i].name = n
    /\ \A i \in DOMAIN offer :
         (s.format # "anoncreds" /\ s.claims[offer[i].name] # "string")
           => offer[i].value = s.claims[offer[i].name]

\* The one-pass loop of validateAttributes, with the names seen so far, finds
\* no issue exactly when the whole offer conforms to the schema.
FVerdict == fRun.at = "done" => (fRun.issues = {} <=> FConforms(fRun.schema, fRun.offer))

\* A schema that validateSchema let in when the definition was created is never
\* one that validateAttributes later refuses to read.
FAcceptedReadable == fRun.at = "refused" => ~FSchemaOk(fRun.schema)

\* The validators agree with the rules, and with each other: the verdict on an
\* offer is that of the whole offer, and what one method accepts the other reads.
FValidatorsAgree == FTypeOK /\ FVerdict /\ FAcceptedReadable
===============================================================================
