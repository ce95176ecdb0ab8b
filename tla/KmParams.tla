------------------------------ MODULE KmParams ------------------------------
(***************************************************************************)
(* The conversions of the Keymaster 4 device: a client's key parameters on *)
(* their way to the TA (KmParamSet), the TA's on their way back            *)
(* (kmParamSet2Hidl), and the byte order of the authentication token       *)
(* (SwapBytes).                                                            *)
(*                                                                         *)
(* A parameter is a tag with a type and a union.  The union is kept as its *)
(* long member, in two words; the member a case reads is a part of it.     *)
(***************************************************************************)
EXTENDS Integers, Sequences, SequencesExt

CONSTANTS
  WordSize,   \* how many values a word has; a long has two words
  Blob,       \* contents of a blob
  NoBlob,
  MaxParams,  \* longest parameter list
  MaxBytes    \* longest field of the token

\* Assumed of the constants.
KmParamsAssumption ==
  /\ WordSize \in Nat \ {0} /\ MaxParams \in Nat /\ MaxBytes \in Nat \ {0}
  /\ NoBlob \notin Blob

DoubleWord == 0 .. WordSize * WordSize - 1

WordType == {"KM_ENUM", "KM_UINT"}
LongType == {"KM_ULONG", "KM_DATE"}
Type     == WordType \cup LongType \cup {"KM_BOOL", "KM_BYTES", "KM_INVALID"}

\* The members of the union f of a HIDL KeyParameter.
integer(f)     == f % WordSize
longInteger(f) == f
boolValue(f)   == f % 2 = 1

Param == {p \in [tag : Type, f : DoubleWord, blob : Blob \cup {NoBlob}] :
            IF p.tag = "KM_BYTES" THEN p.f = 0 /\ p.blob \in Blob ELSE p.blob = NoBlob}

VARIABLES
  paramsPc,
  keyParams,  \* the client's parameters
  params,     \* the parameters the TA is sent, and sends back
  given,      \* the parameters the client is given
  field,      \* the bytes of a token field, least significant first
  first, last \* the pointers of SwapBytes

paramVars == <<paramsPc, keyParams, params, given, field, first, last>>

\* A value of the token in host order: byte i counts i, so that every order of
\* them is told apart.
HostOrder(n) == [i \in 1 .. n |-> i]

ParamsInit ==
  /\ paramsPc = "request"
  /\ keyParams \in BoundedSeq(Param, MaxParams)
  /\ params = <<>> /\ given = <<>>
  /\ field \in {HostOrder(n) : n \in 1 .. MaxBytes}
  /\ first = 1 /\ last = Len(field)

\* Mutant of ToKm: a boolean is taken as set because it is there.
ToKm_bool_present(p) ==
  CASE p.tag \in WordType  -> [tag |-> p.tag, val |-> integer(p.f), blob |-> NoBlob]
    [] p.tag \in LongType  -> [tag |-> p.tag, val |-> longInteger(p.f), blob |-> NoBlob]
    [] p.tag = "KM_BOOL"   -> [tag |-> p.tag, val |-> 1, blob |-> NoBlob]
    [] p.tag = "KM_BYTES"  -> [tag |-> p.tag, val |-> 0, blob |-> p.blob]
    [] OTHER               -> [tag |-> "KM_INVALID", val |-> 0, blob |-> NoBlob]

\* One parameter of KmParamSet.  What stays of a parameter without a valid tag
\* is not initialised, and nothing reads it.
ToKm(p) ==
  CASE p.tag \in WordType  -> [tag |-> p.tag, val |-> integer(p.f), blob |-> NoBlob]
    [] p.tag \in LongType  -> [tag |-> p.tag, val |-> longInteger(p.f), blob |-> NoBlob]
    [] p.tag = "KM_BOOL" /\ boolValue(p.f) -> [tag |-> p.tag, val |-> 1, blob |-> NoBlob]
    [] p.tag = "KM_BYTES"  -> [tag |-> p.tag, val |-> 0, blob |-> p.blob]
    [] OTHER               -> [tag |-> "KM_INVALID", val |-> 0, blob |-> NoBlob]

KmParamSet ==
  /\ paramsPc = "request"
  /\ params' = [i \in DOMAIN keyParams |-> ToKm(keyParams[i])]
  /\ paramsPc' = "swap"
  /\ UNCHANGED <<keyParams, given, field, first, last>>

\* One turn of the loop, or its end.
SwapBytes ==
  /\ paramsPc = "swap"
  /\ IF first < last
       THEN /\ field' = [field EXCEPT ![first] = field[last], ![last] = field[first]]
            /\ first' = first + 1 /\ last' = last - 1 /\ paramsPc' = paramsPc
       ELSE paramsPc' = "sent" /\ UNCHANGED <<field, first, last>>
  /\ UNCHANGED <<keyParams, params, given>>

\* One parameter of kmParamSet2Hidl, into a cleared element.
ToHidl(p) ==
  IF p.tag = "KM_BYTES" THEN [tag |-> p.tag, f |-> 0, blob |-> p.blob]
  ELSE IF p.tag = "KM_INVALID" THEN [tag |-> p.tag, f |-> 0, blob |-> NoBlob]
  ELSE [tag |-> p.tag, f |-> p.val, blob |-> NoBlob]

\* The TA reports the parameters of the key it made.
kmParamSet2Hidl ==
  /\ paramsPc = "sent"
  /\ given' = [i \in DOMAIN params |-> ToHidl(params[i])]
  /\ paramsPc' = "done"
  /\ UNCHANGED <<keyParams, params, field, first, last>>

Done == paramsPc = "done" /\ UNCHANGED paramVars

ParamsNext == KmParamSet \/ SwapBytes \/ kmParamSet2Hidl \/ Done

ParamsSpec == ParamsInit /\ [][ParamsNext]_paramVars

-----------------------------------------------------------------------------
\* What a list says about a key: its valid parameters in order, where a boolean
\* that is false says the same as none, and a word has no upper half.
IsValid(p) == p.tag # "KM_INVALID" /\ (p.tag = "KM_BOOL" => boolValue(p.f))
Value(p)   == IF p.tag \in WordType THEN integer(p.f)
              ELSE IF p.tag = "KM_BOOL" THEN 1 ELSE longInteger(p.f)
Meaning(p) == <<p.tag, Value(p), p.blob>>
Says(ps) ==
  LET said[n \in 0 .. Len(ps)] ==
        IF n = 0 THEN <<>>
        ELSE IF IsValid(ps[n]) THEN Append(said[n - 1], Meaning(ps[n])) ELSE said[n - 1]
  IN  said[Len(ps)]

\* KmParamSet and kmParamSet2Hidl: a key's parameters say the same to the
\* client that gets them back as to the one that gave them; and SwapBytes turns
\* the fields of a token round, whatever their width, for the TA to read.
RequestSurvives ==
  /\ paramsPc = "done" => Says(given) = Says(keyParams)
  /\ paramsPc \in {"sent", "done"} => field = Reverse(HostOrder(Len(field)))

=============================================================================
