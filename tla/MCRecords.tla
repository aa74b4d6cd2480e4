------------------------------ MODULE MCRecords ------------------------------
(* Instances of Records for TLC. *)
EXTENDS Records, TLC

CONSTANTS Account, Contact, Id, Phone, Owner, Seen, r1, r2, p1, p2

\* A date is a custom field, which the CRM has for contacts only.
Kind == (Owner :> "to_one" @@ Seen :> "timestamp") @@ [f \in FieldIDs |-> "string"]
Logic == (Id :> "id" @@ Phone :> "phone") @@ [f \in FieldIDs |-> "other"]
Base == Account :> {Id, Phone} @@ Contact :> {Id, Phone, Owner}
InCrm == Account :> {Id, Phone} @@ Contact :> {Id, Phone, Owner, Seen}
BothTypes == <<Account, Contact>>

\* One contact, with an empty date.
OneContact ==
    r1 :> [type |-> Contact,
           columns |-> Phone :> p1 @@ Lookup(Owner) :> r1 @@ Seen :> Null]

OtherPhone == {p2}

\* Custom fields of one type, which drop the base fields of the other, and of both,
\* one with the id of a base field.
SomeBodies ==
    {Contact :> {Seen}, Account :> {Phone} @@ Contact :> {}}

Params(by, field, types, type, fields) ==
    [q |-> p1, search_by |-> by, field |-> field, object_types |-> types,
     object_type |-> type, fields |-> fields, limit |-> 0]

Search1(by, field, types) == Params(by, field, types, <<>>, <<>>)

\* Only the associations name fields.
RequestsFor(params) ==
    {[op |-> IF p.fields = <<>> THEN "search" ELSE "associations", params |-> p] : p \in params}

RouteRequest(number, input, target, fields) ==
    [op |-> "route", type |-> Contact, number |-> number, caller_input |-> input,
     input_target_field |-> target, api_fields |-> fields]

ObjectRequests ==
    {[op |-> "get", type |-> Contact, id |-> r1, fields |-> {}],
     [op |-> "get", type |-> Contact, id |-> r1, fields |-> {Owner, Seen}],
     [op |-> "create", type |-> Contact, data |-> Phone :> p1 @@ Owner :> r1 @@ Seen :> Number(1)],
     [op |-> "update", type |-> Contact, id |-> r1,
      data |-> Id :> r1 @@ Owner :> Null @@ Phone :> p2 @@ Seen :> Number(1)],
     [op |-> "task", type |-> Contact, id |-> r1, subject |-> p1],
     [op |-> "task", type |-> Account, id |-> r1, subject |-> Empty]}

SomeParams ==
    {Search1("phone", Empty, BothTypes),
     Search1("phone", Empty, <<>>),
     Search1("field", Phone, BothTypes),
     Search1("", Phone, BothTypes),
     Params("", Empty, <<>>, <<Contact>>, <<Id, Phone>>)}

Routes ==
    {RouteRequest(p1, Empty, Empty, {Phone}),
     RouteRequest(Empty, p1, Phone, {}),
     RouteRequest(p1, Empty, Phone, {})}

SomeRequests == ObjectRequests \cup RequestsFor(SomeParams) \cup Routes

\* The same search with and without object types.
WithoutTypes ==
    RequestsFor({Search1("phone", Empty, BothTypes), Search1("phone", Empty, <<>>)})

Symmetry == Permutations(Handlers)
=============================================================================
