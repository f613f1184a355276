------------------------------- MODULE Params -------------------------------
(***************************************************************************)
(* How a lab gets its parameters: PickCase, mergeParams and the generators *)
(* of internal/content/params.go.                                          *)
(*                                                                         *)
(* The generators draw from a seeded random source.  Every seed may be     *)
(* used, so a draw is a choice among what the source could give.  A draw   *)
(* is tried drawAttempts times, so it can fail as soon as one value of the *)
(* range is refused, even when others are free.                            *)
(*                                                                         *)
(* Addresses have Width bits instead of 32.  A value is a prefix, an       *)
(* address or other text; a template is a value or the placeholder of one  *)
(* parameter.                                                              *)
(***************************************************************************)
EXTENDS Integers, Sequences, SequencesExt, Functions

CONSTANTS
    Width,      \* bits of an address
    Reserved,   \* reservedBlock
    Labs        \* labs: their params, and for each case its weight and params

\* The laws of powers of two, as far as they are used.
ASSUME ParamsAssumption ==
    /\ Width \in Nat \ {0}
    /\ \A m \in 0 .. Width : 2 ^ m \in Nat \ {0}
    /\ \A m \in 0 .. Width : \A n \in 0 .. (Width - m) : 2 ^ (m + n) = 2 ^ m * 2 ^ n

VARIABLES
    lab,        \* the lab that is resolved
    params,     \* its parameters with those of the case, by their places
    at,         \* the places before it are done; 0 before the case is picked
    resolved,
    drawn,      \* for each subnet the addresses in use
    errors      \* whether there was one

paramVars == <<lab, params, at, resolved, drawn, errors>>

-----------------------------------------------------------------------------
(* Values *)

Prefix(addr, bits) == [type |-> "prefix", addr |-> addr, bits |-> bits]
Address(addr) == [type |-> "address", addr |-> addr, bits |-> Width]
Text(n) == [type |-> "text", addr |-> n, bits |-> 0]

NoName == "none"
Literal(value) == [ref |-> NoName, value |-> value]
Placeholder(name) == [ref |-> name, value |-> Text(0)]

\* A prefix has an address and as many bits as an address has at most.
IsValue(v) ==
    v.type = "prefix" => v.addr \in 0 .. (2 ^ Width - 1) /\ v.bits \in 0 .. Width
IsTemplate(template) == template.ref = NoName => IsValue(template.value)

\* A list of parameters as it is read from a file: a name is there once.
Parsed(list) ==
    /\ list \in Seq(ToSet(list))
    /\ \A i, j \in DOMAIN list : list[i].name = list[j].name => i = j
    /\ \A i \in DOMAIN list :
          /\ list[i].bits \in Int
          /\ IsTemplate(list[i].from) /\ \A template \in list[i].of : IsTemplate(template)

ASSUME LabsAssumption ==
    \A l \in Labs :
        Parsed(l.params) /\ \A i \in DOMAIN l.cases : Parsed(l.cases[i].params)

Size(bits) == 2 ^ (Width - bits)
Addresses(prefix) == prefix.addr .. (prefix.addr + Size(prefix.bits) - 1)
Overlaps(a, b) == Addresses(a) \cap Addresses(b) # {}

\* The value of a template, or no value when it names a parameter that has none.
Render(template) ==
    IF template.ref = NoName THEN {template.value}
    ELSE {resolved[name] : name \in {template.ref} \cap DOMAIN resolved}

\* What a template is as a prefix, its host bits cleared, if it is one.
ParsePrefix(template) ==
    {Prefix(v.addr - (v.addr % Size(v.bits)), v.bits) :
        v \in {w \in Render(template) : w.type = "prefix"}}

-----------------------------------------------------------------------------
(* The generators.  Each gives the values that may be drawn, Fails says     *)
(* whether the parameter may also be left without a value.                  *)

CIDRs(base, bits) ==
    IF bits <= base.bits \/ bits > Width
    THEN {}
    ELSE {Prefix((base.addr + k * Size(bits)) % 2 ^ Width, bits) :
             k \in 0 .. (2 ^ (bits - base.bits) - 1)}

\* The offsets an ip_in parameter asks for, and none when they are not all usable:
\* an index and a range at once, or neither; a value beyond the last but one.
Offsets(p, subnet) ==
    LET last == Size(subnet.bits) - 2
        asked == CASE p.pick = "index" -> p.lo .. p.lo
                   [] p.pick = "range" -> p.lo .. p.hi
                   [] OTHER -> {}
    IN  IF last >= 2 /\ asked \subseteq 1 .. last THEN asked ELSE {}

AddressesOf(p, subnet) ==
    {(subnet.addr + offset) % 2 ^ Width : offset \in Offsets(p, subnet)}

TakenIn(subnet) == IF subnet \in DOMAIN drawn THEN drawn[subnet] ELSE {}

Candidates(p) ==
    CASE p.gen = "const" -> Render(p.from)
      [] p.gen = "cidr" -> UNION {CIDRs(base, p.bits) : base \in ParsePrefix(p.from)}
      [] p.gen = "ip_in" ->
            {Address(a) : a \in UNION {AddressesOf(p, s) : s \in ParsePrefix(p.from)}}
      [] p.gen = "choice" -> UNION {Render(template) : template \in p.of}
      [] p.gen = "int" -> {Text(n) : n \in p.lo .. p.hi}
      [] OTHER -> {}

Refused(p, value) ==
    \/ p.gen = "cidr" /\ Overlaps(value, Reserved)
    \/ p.gen = "ip_in" /\ \E s \in ParsePrefix(p.from) : value.addr \in TakenIn(s)

Values(p) == {v \in Candidates(p) : ~ Refused(p, v)}

Fails(p) ==
    \/ Candidates(p) = {}
    \/ \E v \in Candidates(p) : Refused(p, v)
    \/ p.gen = "choice" /\ \E template \in p.of : Render(template) = {}

\* Mutant: only addresses drawn from a range are in use.
DrawnByRange(p, value) ==
    LET subnets == IF p.pick = "range" THEN ParsePrefix(p.from) ELSE {}
    IN  [s \in DOMAIN drawn \cup subnets |->
            TakenIn(s) \cup {value.addr : t \in {s} \cap subnets}]

\* The addresses in use once a parameter has its value.
DrawnAfter(p, value) ==
    LET subnets == IF p.gen = "ip_in" THEN ParsePrefix(p.from) ELSE {}
    IN  [s \in DOMAIN drawn \cup subnets |->
            TakenIn(s) \cup {value.addr : t \in {s} \cap subnets}]

-----------------------------------------------------------------------------
(* Cases *)

\* The weights of the first i cases together.
WeightTo(weights) ==
    LET sum[i \in 0 .. Len(weights)] == IF i = 0 THEN 0 ELSE sum[i - 1] + weights[i]
    IN  sum

\* The draw falls into the weight of one case: the first at which what is left of
\* the draw is negative.
PickCase(weights, draw) ==
    {i \in DOMAIN weights :
        /\ draw - WeightTo(weights)[i] < 0
        /\ \A j \in 1 .. (i - 1) : draw - WeightTo(weights)[j] >= 0}

IndexOf(list, name) == {i \in DOMAIN list : list[i].name = name}

\* An override takes the place of the parameter of its name, the others follow; a
\* place behind the last is left out when the override has another.
MergeParams(base, overrides) ==
    LET added == {j \in DOMAIN overrides : IndexOf(base, overrides[j].name) = {}}
    IN  [i \in DOMAIN base \cup {Len(base) + j : j \in added} |->
            IF i \notin DOMAIN base THEN overrides[i - Len(base)]
            ELSE IF IndexOf(overrides, base[i].name) = {} THEN base[i]
            ELSE overrides[CHOOSE j \in IndexOf(overrides, base[i].name) : TRUE]]

-----------------------------------------------------------------------------
InitParams ==
    /\ lab \in Labs
    /\ params = <<>>
    /\ at = 0
    /\ resolved = <<>>
    /\ drawn = <<>>
    /\ errors = FALSE

\* A case whose weight is not positive is an error, and nothing is resolved.
HasBadWeight == \E i \in DOMAIN lab.cases : lab.cases[i].weight <= 0

PickFails ==
    /\ at = 0
    /\ HasBadWeight
    /\ at' = 1
    /\ errors' = TRUE
    /\ UNCHANGED <<lab, params, resolved, drawn>>

\* ResolveFor begins: a lab without cases has its own parameters only.
Pick ==
    /\ at = 0
    /\ ~ HasBadWeight
    /\ at' = 1
    /\ IF lab.cases = <<>> THEN params' = lab.params
       ELSE LET weights == [i \in DOMAIN lab.cases |-> lab.cases[i].weight]
            IN  \E draw \in 0 .. (WeightTo(weights)[Len(weights)] - 1) :
                  \E i \in PickCase(weights, draw) :
                      params' = MergeParams(lab.params, lab.cases[i].params)
    /\ UNCHANGED <<lab, resolved, drawn, errors>>

\* The parameter whose turn it is.
Upcoming(i) ==
    /\ i \in DOMAIN params /\ at <= i
    /\ \A j \in DOMAIN params : at <= j => i <= j

ResolveParam ==
    \E i \in DOMAIN params :
        LET p == params[i] IN
        /\ Upcoming(i)
        /\ \E value \in Values(p) :
             /\ resolved' = [n \in DOMAIN resolved \cup {p.name} |->
                                IF n = p.name THEN value ELSE resolved[n]]
             /\ drawn' = DrawnAfter(p, value)
        /\ at' = i + 1
        /\ UNCHANGED <<lab, params, errors>>

\* The error is kept and the next parameter is tried.
ResolveParamFails ==
    \E i \in DOMAIN params :
        /\ Upcoming(i)
        /\ Fails(params[i])
        /\ at' = i + 1
        /\ errors' = TRUE
        /\ UNCHANGED <<lab, params, resolved, drawn>>

NextParams == PickFails \/ Pick \/ ResolveParam \/ ResolveParamFails

-----------------------------------------------------------------------------
Drawn(i) == i < at /\ i \in DOMAIN params /\ params[i].name \in DOMAIN resolved

\* Whatever the seed, and whatever an override replaces: two addresses drawn in one
\* subnet differ, an address is a usable one of its subnet (not the network's nor
\* the broadcast address), a network lies in its base and outside of the block that
\* Docker takes its own networks from, and a lab that resolves without an error has
\* all its parameters (resolveIPIn, resolveCIDR, mergeParams).
ResolvedIsUsable ==
    /\ \A i \in DOMAIN params : Drawn(i) =>
         LET p == params[i]
             value == resolved[p.name]
         IN  /\ p.gen = "ip_in" => \A s \in ParsePrefix(p.from) :
                  value.addr \in Addresses(s) \ {s.addr, s.addr + Size(s.bits) - 1}
             /\ p.gen = "cidr" =>
                  /\ \A base \in ParsePrefix(p.from) : Addresses(value) \subseteq Addresses(base)
                  /\ ~ Overlaps(value, Reserved)
    /\ \A i, j \in DOMAIN params :
         ( /\ i # j /\ Drawn(i) /\ Drawn(j)
           /\ params[i].gen = "ip_in" /\ params[j].gen = "ip_in"
           /\ ParsePrefix(params[i].from) = ParsePrefix(params[j].from) ) =>
              resolved[params[i].name] # resolved[params[j].name]
    /\ ((\A i \in DOMAIN params : i < at) /\ ~ errors) =>
         \A c \in DOMAIN params : params[c].name \in DOMAIN resolved

=============================================================================
