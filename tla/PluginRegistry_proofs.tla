----------------------- MODULE PluginRegistry_proofs -----------------------
(***************************************************************************)
(* Theorems about the plugin registry, for every vendor's schema, every    *)
(* set of serials and any number of libraries and of entries in a form.    *)
(***************************************************************************)
EXTENDS PluginRegistry, SequenceTheorems, WellFoundedInduction, TLAPS

(* The first item with an error exists: CHOOSE finds it. *)
LEMMA LeastChosen ==
    ASSUME NEW S, S \subseteq Nat, S # {}
    PROVE  LET m == CHOOSE i \in S : \A j \in S : i <= j
           IN  m \in S /\ \A j \in S : m <= j
<1> DEFINE R == OpToRel(<, Nat)
<1>1. \A x, y \in Nat : <<x, y>> \in R <=> x < y
  BY DEF OpToRel
<1>2. IsWellFoundedOn(R, Nat)
  BY NatLessThanWellFounded
<1> HIDE DEF R
<1>3. PICK m \in S : \A n \in S : ~(<<n, m>> \in R)
  BY <1>2, WFMin
<1>4. ASSUME NEW n \in S
      PROVE  m <= n
  <2>1. m \in Nat /\ n \in Nat /\ ~(n < m)
    BY <1>1, <1>3
  <2>. QED  BY <2>1
<1>. QED  BY <1>3, <1>4

(* The outcomes of the two loops of validate. *)
EntriesError(schema, entries) ==
    FirstError(Len(entries), LAMBDA i : EntryError(schema, entries, i))
ParametersError(schema, entries) ==
    FirstError(Len(schema.parameters), LAMBDA i : ParameterError(schema, entries, i))

(* A checked form has no error in any entry; a form with no error in any   *)
(* entry passes.                                                           *)
LEMMA NoEntryError ==
    ASSUME NEW schema, NEW entries, Len(entries) \in Nat
    PROVE  EntriesError(schema, entries) = "ok" <=>
           \A i \in 1..Len(entries) : EntryError(schema, entries, i) = "ok"
<1> DEFINE bad == {i \in 1..Len(entries) : EntryError(schema, entries, i) # "ok"}
<1>1. CASE bad = {}
  BY <1>1 DEF FirstError, EntriesError
<1>2. CASE bad # {}
  <2>1. EntriesError(schema, entries) =
        EntryError(schema, entries, CHOOSE i \in bad : \A j \in bad : i <= j)
    BY <1>2 DEF FirstError, EntriesError
  <2>2. \A i \in bad : i \in 1..Len(entries) /\ EntryError(schema, entries, i) # "ok"
    OBVIOUS
  <2>3. bad \subseteq Nat
    OBVIOUS
  <2> HIDE DEF bad
  <2>4. (CHOOSE i \in bad : \A j \in bad : i <= j) \in bad
    BY <1>2, <2>3, LeastChosen
  <2>. QED  BY <2>1, <2>2, <2>4
<1>. QED  BY <1>1, <1>2

(* The same for the loop over the parameters. *)
LEMMA NoParameterError ==
    ASSUME NEW schema, NEW entries, Len(schema.parameters) \in Nat
    PROVE  ParametersError(schema, entries) = "ok" <=>
           \A i \in 1..Len(schema.parameters) : ParameterError(schema, entries, i) = "ok"
<1> DEFINE bad == {i \in 1..Len(schema.parameters) : ParameterError(schema, entries, i) # "ok"}
<1>1. CASE bad = {}
  BY <1>1 DEF FirstError, ParametersError
<1>2. CASE bad # {}
  <2>1. ParametersError(schema, entries) =
        ParameterError(schema, entries, CHOOSE i \in bad : \A j \in bad : i <= j)
    BY <1>2 DEF FirstError, ParametersError
  <2>2. \A i \in bad : i \in 1..Len(schema.parameters) /\ ParameterError(schema, entries, i) # "ok"
    OBVIOUS
  <2>3. bad \subseteq Nat
    OBVIOUS
  <2> HIDE DEF bad
  <2>4. (CHOOSE i \in bad : \A j \in bad : i <= j) \in bad
    BY <1>2, <2>3, LeastChosen
  <2>. QED  BY <2>1, <2>2, <2>4
<1>. QED  BY <1>1, <1>2

(* A schema parse lets through: no two parameters have one name, and a     *)
(* parameter with choices has at least one.                                *)
Usable(schema) ==
    /\ schema \in AnySchema
    /\ \A i, j \in 1..Len(schema.parameters) :
          schema.parameters[i].name = schema.parameters[j].name => i = j
    /\ \A i \in 1..Len(schema.parameters) :
          schema.parameters[i].kind = "enum" => schema.parameters[i].choices # {}

LEMMA ParsedIsUsable ==
    ASSUME NEW schema \in AnySchema, Parse(schema) = "ok"
    PROVE  Usable(schema)
<1> DEFINE ps == schema.parameters
           wrong(i) == ps[i].name = "" \/ \E j \in 1..(i - 1) : ps[j].name = ps[i].name
           Error(i) == IF wrong(i) THEN "DuplicateParameter"
                       ELSE IF ps[i].kind = "enum" /\ ps[i].choices = {}
                       THEN "InvalidSchema" ELSE "ok"
           bad == {i \in 1..Len(ps) : Error(i) # "ok"}
<1>1. FirstError(Len(ps), Error) = "ok"
  BY DEF Parse
<1>2. ps \in SchemaParameters /\ Len(ps) \in Nat
  BY DEF AnySchema, SchemaParameters
<1>3. bad = {}
  <2>0. SUFFICES ASSUME bad # {} PROVE FALSE
    OBVIOUS
  <2>1. FirstError(Len(ps), Error) = Error(CHOOSE i \in bad : \A j \in bad : i <= j)
    BY <2>0 DEF FirstError
  <2>2. \A i \in bad : Error(i) # "ok"
    OBVIOUS
  <2>3. bad \subseteq Nat
    <3> HIDE DEF Error
    <3>. QED  OBVIOUS
  <2> HIDE DEF bad, Error
  <2>4. (CHOOSE i \in bad : \A j \in bad : i <= j) \in bad
    BY <2>0, <2>3, LeastChosen
  <2>. QED  BY <1>1, <2>1, <2>2, <2>4
<1>4. \A i \in 1..Len(ps) : ~wrong(i) /\ (ps[i].kind = "enum" => ps[i].choices # {})
  BY <1>3
<1>5. ASSUME NEW i \in 1..Len(ps), NEW j \in 1..Len(ps), ps[i].name = ps[j].name, i # j
      PROVE  FALSE
  <2>1. i \in 1..j - 1 \/ j \in 1..i - 1
    BY <1>2, <1>5
  <2>. QED  BY <1>4, <1>5, <2>1
<1>. QED  BY <1>4, <1>5 DEF Usable

(* A parsed schema makes a form that can be filled in. *)
LEMMA UsableIsFillable ==
    ASSUME NEW schema, Usable(schema)
    PROVE  Fillable(schema)
<1> DEFINE ps == schema.parameters
<1>1. /\ Len(ps) \in Nat
      /\ \A k \in 1..Len(ps) : ps[k].kind \in Kinds /\ ps[k].choices \subseteq Text
  <2>1. ps \in SchemaParameters
    BY DEF Usable, AnySchema
  <2> DEFINE P == [name : Names, kind : Kinds, required : BOOLEAN, choices : SUBSET Text]
  <2>2. ps \in Seq(P)
    BY <2>1 DEF SchemaParameters
  <2>3. \A r \in P : r.kind \in Kinds /\ r.choices \subseteq Text
    OBVIOUS
  <2> HIDE DEF P, ps
  <2>4. Len(ps) \in Nat /\ \A k \in 1..Len(ps) : ps[k] \in P
    BY <2>2, ElementOfSeq, LenProperties
  <2>. QED  BY <2>3, <2>4
<1>2. ASSUME NEW k \in 1..Len(ps)
      PROVE  \E t \in Text : Accepts(ps[k], t)
  <2>1. "true" \in Text /\ "7" \in Text /\ "7" # ""
    BY DEF Text
  <2>2. CASE ps[k].kind = "enum"
    <3>1. PICK t \in ps[k].choices : TRUE
      BY <2>2 DEF Usable
    <3>. QED  BY <3>1, <2>2, <1>1 DEF Accepts
  <2>3. CASE ps[k].kind = "boolean"
    BY <2>1, <2>3 DEF Accepts
  <2>4. CASE ps[k].kind \in {"integer", "float", "file", "directory", "string"}
    <3>1. Accepts(ps[k], "7")
      BY <2>4, <2>1 DEF Accepts
    <3>. QED  BY <3>1, <2>1
  <2>. QED  BY <1>1, <2>2, <2>3, <2>4 DEF Kinds
<1>. QED  BY <1>2 DEF Fillable

(* What one turn of the first loop of validate asks of an entry.  Names    *)
(* are unique in a usable schema, so the parameter found is the only one.  *)
LEMMA EntryIsChecked ==
    ASSUME NEW schema, Usable(schema), NEW entries \in Entries, NEW i \in 1..Len(entries)
    PROVE  EntryError(schema, entries, i) = "ok" <=>
           /\ \A j \in 1..(i - 1) : entries[j].name # entries[i].name
           /\ \E k \in 1..Len(schema.parameters) :
                 /\ schema.parameters[k].name = entries[i].name
                 /\ IF entries[i].value = Unset THEN ~schema.parameters[k].required
                    ELSE Accepts(schema.parameters[k], entries[i].value)
<1> DEFINE ps == schema.parameters
           known == {p \in 1..Len(ps) : ps[p].name = entries[i].name}
           chosen == CHOOSE p \in known : \A q \in known : p <= q
<1>1. known \subseteq Nat
  OBVIOUS
<1>2. \A p, q \in known : p = q
  BY DEF Usable
<1>3. \A k \in 1..Len(ps) : ps[k].name = entries[i].name <=> k \in known
  OBVIOUS
<1>4. known # {} => chosen \in known
  <2> HIDE DEF known
  <2>. QED  BY <1>1, LeastChosen
<1>5. known # {} => \A k \in known : k = chosen
  BY <1>2, <1>4
<1>6. known \subseteq 1..Len(ps)
  OBVIOUS
<1>7. EntryError(schema, entries, i) =
         IF \E j \in 1..(i - 1) : entries[j].name = entries[i].name
         THEN "DuplicateValue"
         ELSE IF known = {} THEN "UnknownParameter"
         ELSE IF entries[i].value = Unset
         THEN IF ps[chosen].required THEN "MissingRequired" ELSE "ok"
         ELSE IF Accepts(ps[chosen], entries[i].value) THEN "ok" ELSE "InvalidValue"
  BY DEF EntryError
<1> HIDE DEF known, chosen
<1>8. (\E k \in 1..Len(ps) :
          /\ ps[k].name = entries[i].name
          /\ IF entries[i].value = Unset THEN ~ps[k].required
             ELSE Accepts(ps[k], entries[i].value))
      <=> /\ known # {}
          /\ IF entries[i].value = Unset THEN ~ps[chosen].required
             ELSE Accepts(ps[chosen], entries[i].value)
  BY <1>3, <1>4, <1>5, <1>6
<1>. QED  BY <1>7, <1>8

(* validate accepts exactly the forms that fit the schema.  The forms have *)
(* to be usable: with two parameters of one name, the order would matter.  *)
LEMMA ValidateIsExact ==
    ASSUME NEW schema, Usable(schema), NEW configuration, configuration.values \in Entries
    PROVE  Validate(schema, configuration) = "ok" <=> Fits(schema, configuration.values)
<1> DEFINE ps == schema.parameters
           entries == configuration.values
           Ok(i, k) == /\ ps[k].name = entries[i].name
                       /\ IF entries[i].value = Unset THEN ~ps[k].required
                          ELSE Accepts(ps[k], entries[i].value)
           Distinct == \A i, j \in 1..Len(entries) : entries[i].name = entries[j].name => i = j
           Known == \A i \in 1..Len(entries) : \E k \in 1..Len(ps) :
                       /\ ps[k].name = entries[i].name
                       /\ entries[i].value = Unset \/ Accepts(ps[k], entries[i].value)
           AllGiven == \A k \in 1..Len(ps) : ps[k].required =>
                          \E i \in 1..Len(entries) :
                             entries[i].name = ps[k].name /\ entries[i].value # Unset
<1>1. Len(ps) \in Nat /\ Len(entries) \in Nat
  BY DEF Usable, AnySchema, SchemaParameters, Entries
<1>2. Validate(schema, configuration) = "ok" <=>
      /\ \A i \in 1..Len(entries) : EntryError(schema, entries, i) = "ok"
      /\ \A k \in 1..Len(ps) : ParameterError(schema, entries, k) = "ok"
  <2>1. Validate(schema, configuration) =
           IF EntriesError(schema, entries) # "ok" THEN EntriesError(schema, entries)
           ELSE ParametersError(schema, entries)
    BY DEF Validate, EntriesError, ParametersError
  <2>. QED  BY <1>1, <2>1, NoEntryError, NoParameterError
<1>3. (\A i \in 1..Len(entries) : EntryError(schema, entries, i) = "ok") <=>
      Distinct /\ \A i \in 1..Len(entries) : \E k \in 1..Len(ps) : Ok(i, k)
  <2>1. (\A i \in 1..Len(entries) : \A j \in 1..(i - 1) : entries[j].name # entries[i].name)
        <=> Distinct
    <3>1. ASSUME \A i \in 1..Len(entries) : \A j \in 1..(i - 1) :
                    entries[j].name # entries[i].name,
                 NEW i \in 1..Len(entries), NEW j \in 1..Len(entries),
                 entries[i].name = entries[j].name, i # j
          PROVE  FALSE
      <4>1. i \in 1..j - 1 \/ j \in 1..i - 1
        BY <1>1, <3>1
      <4>. QED  BY <3>1, <4>1
    <3>2. ASSUME Distinct, NEW i \in 1..Len(entries), NEW j \in 1..(i - 1)
          PROVE  entries[j].name # entries[i].name
      <4>1. j \in 1..Len(entries) /\ i # j
        BY <1>1
      <4>. QED  BY <3>2, <4>1
    <3>. QED  BY <3>1, <3>2
  <2>2. \A i \in 1..Len(entries) :
           EntryError(schema, entries, i) = "ok" <=>
              /\ \A j \in 1..(i - 1) : entries[j].name # entries[i].name
              /\ \E k \in 1..Len(ps) : Ok(i, k)
    BY EntryIsChecked
  <2> HIDE DEF Ok, Distinct
  <2>. QED  BY <2>1, <2>2
<1>4. (\A k \in 1..Len(ps) : ParameterError(schema, entries, k) = "ok") <=> AllGiven
  BY DEF ParameterError, Given
<1>5. Fits(schema, entries) <=> Distinct /\ Known /\ AllGiven
  <2> DEFINE es == {entries[i] : i \in 1..Len(entries)}
             params == {ps[k] : k \in 1..Len(ps)}
  <2>1. Fits(schema, entries) <=>
           /\ Distinct
           /\ \A e \in es : \E p \in params : p.name = e.name /\ (e.value = Unset \/ Accepts(p, e.value))
           /\ \A p \in params : p.required => \E i \in 1..Len(entries) :
                 entries[i].name = p.name /\ entries[i].value # Unset
    BY DEF Fits
  <2>2. (\A i \in 1..Len(entries) : entries[i] \in es) /\ \A e \in es : \E i \in 1..Len(entries) : e = entries[i]
    OBVIOUS
  <2>3. (\A k \in 1..Len(ps) : ps[k] \in params) /\ \A p \in params : \E k \in 1..Len(ps) : p = ps[k]
    OBVIOUS
  <2> HIDE DEF es, params, entries, ps
  <2>4. (\A e \in es : \E p \in params : p.name = e.name /\ (e.value = Unset \/ Accepts(p, e.value)))
        <=> Known
    <3>1. ASSUME \A e \in es : \E p \in params :
                    p.name = e.name /\ (e.value = Unset \/ Accepts(p, e.value)),
                 NEW i \in 1..Len(entries)
          PROVE  \E k \in 1..Len(ps) : /\ ps[k].name = entries[i].name
                                       /\ entries[i].value = Unset \/ Accepts(ps[k], entries[i].value)
      BY <2>2, <2>3, <3>1, SMTT(60)
    <3>2. ASSUME Known, NEW e \in es
          PROVE  \E p \in params : p.name = e.name /\ (e.value = Unset \/ Accepts(p, e.value))
      BY <2>2, <2>3, <3>2
    <3>. QED  BY <3>1, <3>2
  <2>5. (\A p \in params : p.required => \E i \in 1..Len(entries) :
            entries[i].name = p.name /\ entries[i].value # Unset)
        <=> AllGiven
    BY <2>3
  <2>. QED  BY <2>1, <2>4, <2>5
<1>6. (\A i \in 1..Len(entries) : \E k \in 1..Len(ps) : Ok(i, k)) => Known
  OBVIOUS
<1>7. ASSUME Distinct, Known, AllGiven, NEW i \in 1..Len(entries)
      PROVE  \E k \in 1..Len(ps) : Ok(i, k)
  <2>1. PICK k \in 1..Len(ps) :
           /\ ps[k].name = entries[i].name
           /\ entries[i].value = Unset \/ Accepts(ps[k], entries[i].value)
    BY <1>7
  <2>2. CASE entries[i].value = Unset /\ ps[k].required
    <3>1. PICK j \in 1..Len(entries) : entries[j].name = ps[k].name /\ entries[j].value # Unset
      BY <1>7, <2>2
    <3>. QED  BY <1>7, <2>1, <2>2, <3>1
  <2>3. CASE ~(entries[i].value = Unset /\ ps[k].required)
    BY <2>1, <2>3
  <2>. QED  BY <2>2, <2>3
<1> HIDE DEF Ok, Distinct, Known, AllGiven
<1>. QED  BY <1>2, <1>3, <1>4, <1>5, <1>6, <1>7

(* The schemas of the two plugins of this tree are usable. *)
LEMMA OwnSchemasAreUsable ==
    Usable(RawSchema) /\ Usable(SimulatorSchema) /\ Usable(Empty)
<1> DEFINE P == [name : Names, kind : Kinds, required : BOOLEAN, choices : SUBSET Text]
<1> HIDE DEF P
<1>1. Usable(RawSchema)
  <2> DEFINE a == Parameter("input_file", "file", TRUE)
  <2>1. a \in P /\ a.kind = "file"
    <3>1. a.kind = "file"
      BY DEF Parameter
    <3>. QED  BY <3>1, RegistryAssumption DEF Parameter, P, Kinds
  <2>2. RawSchema = [version |-> 1, parameters |-> <<a>>]
    BY DEF RawSchema
  <2> HIDE DEF a
  <2>3. <<a>> \in Seq(P) /\ Len(<<a>>) = 1 /\ <<a>>[1] = a
    BY <2>1
  <2>. QED  BY <2>1, <2>2, <2>3 DEF Usable, AnySchema, SchemaParameters, P
<1>2. Usable(SimulatorSchema)
  <2> DEFINE a == Parameter("video_file", "file", TRUE)
             b == Parameter("fps", "float", FALSE)
             c == Parameter("width", "integer", FALSE)
  <2>1. /\ a \in P /\ b \in P /\ c \in P
        /\ a.kind = "file" /\ b.kind = "float" /\ c.kind = "integer"
        /\ a.name = "video_file" /\ b.name = "fps" /\ c.name = "width"
    <3>1. /\ a.kind = "file" /\ b.kind = "float" /\ c.kind = "integer"
          /\ a.name = "video_file" /\ b.name = "fps" /\ c.name = "width"
      BY DEF Parameter
    <3>. QED  BY <3>1, RegistryAssumption DEF Parameter, P, Kinds
  <2>2. SimulatorSchema = [version |-> 1, parameters |-> <<a, b, c>>]
    BY DEF SimulatorSchema
  <2> HIDE DEF a, b, c
  <2>3. /\ <<a, b, c>> \in Seq(P) /\ Len(<<a, b, c>>) = 3
        /\ <<a, b, c>>[1] = a /\ <<a, b, c>>[2] = b /\ <<a, b, c>>[3] = c
    BY <2>1
  <2>. QED  BY <2>1, <2>2, <2>3 DEF Usable, AnySchema, SchemaParameters, P
<1>3. Usable(Empty)
  BY DEF Usable, Empty, AnySchema, SchemaParameters, Kinds
<1>. QED  BY <1>1, <1>2, <1>3

-----------------------------------------------------------------------------
(* The entries of a form stay entries, however the application edits them. *)
LEMMA EditedEntries ==
    ASSUME NEW es \in Entries
    PROVE  /\ \A i \in 1..Len(es), t \in Text \union {Unset} : [es EXCEPT ![i].value = t] \in Entries
           /\ \A n \in Names : Append(es, [name |-> n, value |-> Unset]) \in Entries
           /\ es # <<>> => Tail(es) \in Entries
<1> DEFINE E == [name : Names, value : Text \union {Unset}]
<1>0. es \in Seq(E) /\ Len(es) \in Nat
  BY DEF Entries
<1>1. ASSUME NEW i \in 1..Len(es), NEW t \in Text \union {Unset}
      PROVE  [es EXCEPT ![i].value = t] \in Seq(E)
  <2>1. es[i] \in E
    <3> HIDE DEF E
    <3>. QED  BY <1>0, <1>1, ElementOfSeq
  <2>2. [es[i] EXCEPT !.value = t] \in E
    BY <2>1
  <2>3. [es EXCEPT ![i].value = t] = [es EXCEPT ![i] = [es[i] EXCEPT !.value = t]]
    BY <1>0
  <2> HIDE DEF E
  <2>. QED  BY <1>0, <2>2, <2>3, ExceptSeq
<1>2. ASSUME NEW n \in Names
      PROVE  Append(es, [name |-> n, value |-> Unset]) \in Seq(E)
  <2>1. [name |-> n, value |-> Unset] \in E
    OBVIOUS
  <2> HIDE DEF E
  <2>. QED  BY <1>0, <2>1, AppendProperties
<1>3. es # <<>> => Tail(es) \in Seq(E)
  <2> HIDE DEF E
  <2>. QED  BY <1>0, HeadTailProperties
<1>. QED  BY <1>1, <1>2, <1>3 DEF Entries

(* The empty form has an unset entry for every parameter. *)
LEMMA NewFormType ==
    ASSUME NEW schema, Usable(schema), NEW serial \in Serials
    PROVE  /\ NewConfiguration(schema, serial) \in Configurations
           /\ NewConfiguration(schema, serial).serial = serial
<1> DEFINE P == [name : Names, kind : Kinds, required : BOOLEAN, choices : SUBSET Text]
           E == [name : Names, value : Text \union {Unset}]
           ps == schema.parameters
           values == [i \in 1..Len(ps) |-> [name |-> ps[i].name, value |-> Unset]]
<1>1. ps \in Seq(P)
  BY DEF Usable, AnySchema, SchemaParameters
<1>2. \A r \in P : [name |-> r.name, value |-> Unset] \in E
  OBVIOUS
<1>3. Len(ps) \in Nat /\ \A i \in 1..Len(ps) : ps[i] \in P
  <2> HIDE DEF P
  <2>. QED  BY <1>1, ElementOfSeq, LenProperties
<1>4. values \in [1..Len(ps) -> E]
  BY <1>2, <1>3
<1>5. values \in Seq(E)
  BY <1>3, <1>4, SeqDef
<1>. QED  BY <1>5 DEF NewConfiguration, Configurations, Entries

(* What the schema of a plugin is, once parse has let it through. *)
LEMMA SchemaIsUsable ==
    ASSUME TypeOK, NEW p \in Plugins, SchemaText(p) = NoSchema \/ Parse(SchemaText(p)) = "ok"
    PROVE  Usable(SchemaOf(p))
<1>1. SchemaText(p) \in AnySchema \union {NoSchema}
  <2>1. vendor \in AnySchema \union {NoSchema}
    BY RegistryAssumption DEF TypeOK
  <2>2. RawSchema \in AnySchema /\ SimulatorSchema \in AnySchema
    BY OwnSchemasAreUsable DEF Usable
  <2>. QED  BY <2>1, <2>2, RegistryAssumption DEF SchemaText
<1>2. CASE SchemaText(p) = NoSchema
  BY <1>2, OwnSchemasAreUsable DEF SchemaOf
<1>3. CASE SchemaText(p) # NoSchema
  BY <1>1, <1>3, ParsedIsUsable DEF SchemaOf
<1>. QED  BY <1>2, <1>3

(* The plugins of this tree open a device only with a form that fits. *)
LEMMA OwnPluginsCheckAgain ==
    ASSUME NEW configuration \in Configurations
    PROVE  /\ Openable("raw", configuration) => Fits(SchemaOf("raw"), configuration.values)
           /\ Openable("simulator", configuration) =>
                 Fits(SchemaOf("simulator"), configuration.values)
<1>1. configuration.values \in Entries
  BY DEF Configurations
<1>2. RawSchema \in AnySchema /\ SimulatorSchema \in AnySchema
  BY OwnSchemasAreUsable DEF Usable
<1>3. SchemaOf("raw") = RawSchema /\ SchemaOf("simulator") = SimulatorSchema
  BY <1>2, RegistryAssumption DEF SchemaOf, SchemaText
<1>4. /\ Validate(RawSchema, configuration) = "ok" => Fits(RawSchema, configuration.values)
      /\ Validate(SimulatorSchema, configuration) = "ok" =>
            Fits(SimulatorSchema, configuration.values)
  BY <1>1, ValidateIsExact, OwnSchemasAreUsable
<1>. QED  BY <1>3, <1>4 DEF Openable, RawOpens, SimulatorOpens

(* Only one plugin is the first that discovers a serial. *)
LEMMA FirstIsOne ==
    ASSUME Len(modules) \in Nat, NEW p, NEW q, NEW s, FirstToDiscover(p, s), FirstToDiscover(q, s)
    PROVE  p = q
<1>1. PICK k \in 1..Len(modules) :
         /\ modules[k] = p /\ s \in Discovered(p)
         /\ \A j \in 1..k - 1 : s \notin Discovered(modules[j])
  BY DEF FirstToDiscover
<1>2. PICK l \in 1..Len(modules) :
         /\ modules[l] = q /\ s \in Discovered(q)
         /\ \A j \in 1..l - 1 : s \notin Discovered(modules[j])
  BY DEF FirstToDiscover
<1>3. k \in 1..l - 1 \/ l \in 1..k - 1 \/ k = l
  BY <1>1, <1>2
<1>. QED  BY <1>1, <1>2, <1>3

-----------------------------------------------------------------------------
(* What a form and a call hold, field by field. *)
LEMMA FieldTypes ==
    ASSUME TypeOK
    PROVE  /\ form # Nothing => /\ form \in Forms /\ form.maker \in Plugins
                               /\ form.moved \in BOOLEAN
                               /\ form.configuration \in Configurations
                               /\ form.configuration.values \in Entries
           /\ call # Nothing => /\ call \in Calls /\ call.at \in Nat \ {0}
                               /\ call.moved \in BOOLEAN
                               /\ call.configuration \in Configurations
                               /\ call.configuration.serial \in Serials
                               /\ call.configuration.values \in Entries
           /\ call # Nothing /\ call.at <= Len(modules) => Asked \in Plugins
           /\ Len(modules) \in Nat /\ \A j \in 1..Len(modules) : modules[j] \in Plugins
<1>1. form # Nothing => form \in Forms
  BY DEF TypeOK
<1>2. call # Nothing => call \in Calls
  BY DEF TypeOK
<1>3. \A f \in Forms : /\ f.maker \in Plugins /\ f.moved \in BOOLEAN
                       /\ f.configuration \in Configurations
                       /\ f.configuration.values \in Entries
  BY DEF Forms, Configurations
<1>4. \A c \in Calls : /\ c.at \in Nat \ {0} /\ c.moved \in BOOLEAN
                       /\ c.configuration \in Configurations
                       /\ c.configuration.serial \in Serials
                       /\ c.configuration.values \in Entries
  BY DEF Calls, Configurations
<1>5. Len(modules) \in Nat /\ \A j \in 1..Len(modules) : modules[j] \in Plugins
  BY ElementOfSeq, LenProperties DEF TypeOK
<1>6. call # Nothing /\ call.at <= Len(modules) => Asked \in Plugins
  BY <1>2, <1>4, <1>5 DEF Asked
<1>. QED  BY <1>1, <1>2, <1>3, <1>4, <1>5, <1>6

(* The form made from the schema of the plugin asked. *)
LEMMA NewFormIsAForm ==
    ASSUME TypeOK, call # Nothing, call.at <= Len(modules), ~SchemaIsRefused
    PROVE  /\ Usable(SchemaOf(Asked))
           /\ NewConfiguration(SchemaOf(Asked), call.configuration.serial) \in Configurations
           /\ NewConfiguration(SchemaOf(Asked), call.configuration.serial).serial =
                 call.configuration.serial
<1>1. Asked \in Plugins /\ call.configuration.serial \in Serials
  BY FieldTypes
<1>2. Usable(SchemaOf(Asked))
  BY <1>1, SchemaIsUsable DEF SchemaIsRefused
<1>. QED  BY <1>1, <1>2, NewFormType

(* A call begins with a configuration of the right type. *)
LEMMA BegunCallType ==
    ASSUME NEW kind \in {"schema", "check", "serial"}, NEW configuration \in Configurations,
           NEW moved \in BOOLEAN, Begin(kind, configuration, moved)
    PROVE  call' \in Calls /\ device' = Nothing
BY DEF Begin, Calls

LEMMA UnfilledType ==
    ASSUME NEW s \in Serials
    PROVE  [serial |-> s, values |-> <<>>] \in Configurations
BY DEF Configurations, Entries

(* Every step keeps the types. *)
LEMMA NextKeepsTypeOK ==
    ASSUME TypeOK, [Next]_vars
    PROVE  TypeOK'
<1>1. ASSUME NEW p \in Plugins, LoadFile(p)
      PROVE  TypeOK'
  BY <1>1, AppendProperties DEF TypeOK, LoadFile
<1>2. ASSUME NEW p \in DOMAIN attached, NEW s \in Serials, Replug(p, s)
      PROVE  TypeOK'
  <2>1. attached' \in [Plugins \ {"simulator"} -> SUBSET Serials]
    BY <1>2 DEF TypeOK, Replug
  <2>2. form' \in Forms \union {Nothing} /\ call' \in Calls \union {Nothing}
    BY <1>2 DEF TypeOK, Replug, Moved, Forms, Calls
  <2>. QED  BY <1>2, <2>1, <2>2 DEF TypeOK, Replug
<1>3. ASSUME NEW s \in Serials, NewForm(s)
      PROVE  TypeOK'
  <2>1. call' \in Calls /\ device' = Nothing
    BY <1>3, UnfilledType, BegunCallType DEF NewForm
  <2>. QED  BY <1>3, <2>1 DEF TypeOK, NewForm
<1>4. ASSUME NEW s \in Serials, OpenBySerial(s)
      PROVE  TypeOK'
  <2>1. call' \in Calls /\ device' = Nothing
    BY <1>4, UnfilledType, BegunCallType DEF OpenBySerial
  <2>. QED  BY <1>4, <2>1 DEF TypeOK, OpenBySerial
<1>5. ASSUME NEW i \in 1..MaxEntries, NEW t \in FormTexts \union {Unset}, FillIn(i, t)
      PROVE  TypeOK'
  <2>1. t \in Text \union {Unset} /\ i \in 1..Len(form.configuration.values)
    BY <1>5, RegistryAssumption DEF FillIn
  <2>2. form # Nothing /\ form.configuration.values \in Entries /\ form \in Forms
    BY <1>5, FieldTypes DEF FillIn
  <2>3. [form.configuration.values EXCEPT ![i].value = t] \in Entries
    BY <2>1, <2>2, EditedEntries
  <2>4. form' = [form EXCEPT !.configuration.values =
                    [form.configuration.values EXCEPT ![i].value = t]]
    BY <1>5, <2>2 DEF FillIn, Forms, Configurations
  <2>5. form' \in Forms
    BY <2>2, <2>3, <2>4 DEF Forms, Configurations
  <2>. QED  BY <1>5, <2>5 DEF TypeOK, FillIn
<1>6. ASSUME NEW name \in EntryNames, AddEntry(name)
      PROVE  TypeOK'
  <2>1. form # Nothing /\ form.configuration.values \in Entries /\ form \in Forms
    BY <1>6, FieldTypes DEF AddEntry
  <2>2. Append(form.configuration.values, [name |-> name, value |-> Unset]) \in Entries
    BY <2>1, EditedEntries, RegistryAssumption
  <2>3. form' \in Forms
    BY <1>6, <2>1, <2>2 DEF AddEntry, Forms, Configurations
  <2>. QED  BY <1>6, <2>3 DEF TypeOK, AddEntry
<1>7. CASE RemoveEntry
  <2>1. form # Nothing /\ form.configuration.values \in Entries /\ form \in Forms
    BY <1>7, FieldTypes DEF RemoveEntry
  <2>2. Tail(form.configuration.values) \in Entries
    BY <1>7, <2>1, EditedEntries DEF RemoveEntry
  <2>3. form' \in Forms
    BY <1>7, <2>1, <2>2 DEF RemoveEntry, Forms, Configurations
  <2>. QED  BY <1>7, <2>3 DEF TypeOK, RemoveEntry
<1>8. CASE OpenWithConfiguration
  <2>1. call' \in Calls /\ device' = Nothing
    BY <1>8, FieldTypes, BegunCallType DEF OpenWithConfiguration
  <2>. QED  BY <1>8, <2>1 DEF TypeOK, OpenWithConfiguration
<1>9. CASE NoDeviceFound
  BY <1>9 DEF TypeOK, NoDeviceFound, Ended
<1>10. ASSUME call # Nothing
       PROVE  [call EXCEPT !.at = @ + 1] \in Calls
  BY <1>10 DEF TypeOK, Calls
<1>11. CASE AskForSchema
  <2>1. call # Nothing /\ call.at <= Len(modules) /\ Asked \in Plugins
    BY <1>11, FieldTypes DEF AskForSchema
  <2>2. CASE ~Discovers \/ SchemaIsRefused
    BY <1>10, <1>11, <2>1, <2>2 DEF AskForSchema, NextModule, Ended, TypeOK
  <2>3. CASE Discovers /\ ~SchemaIsRefused /\ call.kind = "schema"
    <3>1. form' \in Forms
      BY <1>11, <2>1, <2>3, NewFormIsAForm, FieldTypes DEF AskForSchema, Forms
    <3>. QED  BY <1>11, <2>3, <3>1 DEF AskForSchema, Ended, TypeOK
  <2>4. CASE Discovers /\ ~SchemaIsRefused /\ call.kind # "schema"
    <3>1. PICK kind \in {"open", "refused"} :
             call' = [call EXCEPT !.kind = kind, !.at = 1, !.checked = Asked]
      BY <1>11, <2>4 DEF AskForSchema
    <3>2. call' \in Calls
      <4>1. call \in Calls /\ call.configuration \in Configurations /\ call.moved \in BOOLEAN
        BY <2>1, FieldTypes
      <4>2. call' = [kind |-> kind, at |-> 1, configuration |-> call.configuration,
                     checked |-> Asked, moved |-> call.moved]
        BY <3>1, <4>1 DEF Calls
      <4>. QED  BY <2>1, <4>1, <4>2 DEF Calls
    <3>. QED  BY <1>11, <2>4, <3>2 DEF AskForSchema, TypeOK
  <2>. QED  BY <2>2, <2>3, <2>4
<1>12. CASE Refuse
  BY <1>12 DEF TypeOK, Refuse, Ended
<1>13. ASSUME call # Nothing, call.at <= Len(modules), Opened(Asked)
       PROVE  device' \in Devices
  <2>1. Fits(SchemaOf(Asked), call.configuration.values) \in BOOLEAN
    BY DEF Fits
  <2>2. (call.kind = "open") \in BOOLEAN /\ call.moved \in BOOLEAN /\ Asked \in Plugins
    BY <1>13, FieldTypes
  <2>. QED  BY <1>13, <2>1, <2>2 DEF Opened, Devices
<1>14. CASE AskToOpen
  BY <1>10, <1>13, <1>14 DEF TypeOK, AskToOpen, NextModule, Ended, FailToOpen
<1>15. CASE AskToOpenBySerial
  BY <1>10, <1>13, <1>15 DEF TypeOK, AskToOpenBySerial, NextModule, Ended
<1>16. CASE UNCHANGED vars
  BY <1>16 DEF TypeOK, vars
<1>. QED
  BY <1>1, <1>2, <1>3, <1>4, <1>5, <1>6, <1>7, <1>8, <1>9, <1>11, <1>12, <1>14, <1>15, <1>16
  DEF Next

-----------------------------------------------------------------------------
(* While the devices stay where they are, and modules are at most added,   *)
(* the first plugin that discovers a serial stays the first.               *)
LEMMA FirstStays ==
    ASSUME TypeOK, attached' = attached,
           modules' = modules \/ \E m \in Plugins : modules' = Append(modules, m)
    PROVE  \A p, s : FirstToDiscover(p, s) => FirstToDiscover(p, s)'
<1>1. \A p : Discovered(p)' = Discovered(p)
  BY DEF Discovered
<1>2. /\ Len(modules) \in Nat /\ Len(modules') >= Len(modules) /\ Len(modules') \in Nat
      /\ \A j \in 1..Len(modules) : modules'[j] = modules[j]
  BY AppendProperties, LenProperties DEF TypeOK
<1>3. ASSUME NEW p, NEW s, FirstToDiscover(p, s)
      PROVE  FirstToDiscover(p, s)'
  <2>1. PICK k \in 1..Len(modules) :
           /\ modules[k] = p /\ s \in Discovered(p)
           /\ \A j \in 1..k - 1 : s \notin Discovered(modules[j])
    BY <1>3 DEF FirstToDiscover
  <2>2. /\ k \in 1..Len(modules') /\ modules'[k] = p /\ s \in Discovered(p)'
        /\ \A j \in 1..k - 1 : modules'[j] = modules[j]
    BY <1>1, <1>2, <2>1
  <2>. QED  BY <1>1, <2>1, <2>2 DEF FirstToDiscover, Discovered
<1>. QED  BY <1>3

(* The schemas never change. *)
LEMMA SchemasStay ==
    ASSUME vendor' = vendor
    PROVE  \A p : SchemaOf(p)' = SchemaOf(p)
BY DEF SchemaOf, SchemaText

LEMMA LoadKeepsIndInv ==
    ASSUME IndInv, NEW m \in Plugins, LoadFile(m)
    PROVE  IndInv'
<1>1. TypeOK /\ TypeOK'
  BY NextKeepsTypeOK DEF IndInv, Next
<1>2. \A p, s : FirstToDiscover(p, s) => FirstToDiscover(p, s)'
  BY <1>1, FirstStays DEF LoadFile
<1>3. \A p : SchemaOf(p)' = SchemaOf(p)
  BY SchemasStay DEF LoadFile
<1>4. FormInv'
  BY <1>2 DEF IndInv, FormInv, LoadFile
<1>5. FormCanBeFilled'
  BY <1>3 DEF IndInv, FormCanBeFilled, LoadFile
<1>6. CallInv' /\ FormIsCheckedExactly'
  BY DEF LoadFile, CallInv, FormIsCheckedExactly
<1>7. OpenerKnowsItsForm'
  BY DEF IndInv, LoadFile, OpenerKnowsItsForm
<1>. QED  BY <1>1, <1>4, <1>5, <1>6, <1>7 DEF IndInv

(* Editing changes neither the maker of a form nor the serial it is for. *)
LEMMA EditKeepsIndInv ==
    ASSUME IndInv, TypeOK', call = Nothing, form # Nothing,
           UNCHANGED <<modules, vendor, attached, call, device>>,
           form'.maker = form.maker, form'.moved = form.moved,
           form'.configuration.serial = form.configuration.serial
    PROVE  IndInv'
<1>1. \A p, s : FirstToDiscover(p, s) => FirstToDiscover(p, s)'
  BY FirstStays DEF IndInv
<1>2. \A p : SchemaOf(p)' = SchemaOf(p)
  BY SchemasStay
<1>3. FormInv'
  BY <1>1 DEF IndInv, FormInv
<1>4. FormCanBeFilled'
  BY <1>2 DEF IndInv, FormCanBeFilled
<1>5. CallInv' /\ FormIsCheckedExactly'
  BY DEF CallInv, FormIsCheckedExactly
<1>6. OpenerKnowsItsForm'
  BY DEF IndInv, OpenerKnowsItsForm
<1>. QED  BY <1>3, <1>4, <1>5, <1>6 DEF IndInv

LEMMA EditingKeepsIndInv ==
    ASSUME IndInv, TypeOK',
           \/ \E i \in 1..MaxEntries, t \in FormTexts \union {Unset} : FillIn(i, t)
           \/ \E name \in EntryNames : AddEntry(name)
           \/ RemoveEntry
    PROVE  IndInv'
<1>1. form # Nothing => form \in Forms
  BY DEF IndInv, TypeOK
<1>2. ASSUME NEW i, NEW t, FillIn(i, t)
      PROVE  IndInv'
  <2>1. /\ form'.maker = form.maker /\ form'.moved = form.moved
        /\ form'.configuration.serial = form.configuration.serial
    BY <1>1, <1>2 DEF FillIn, Forms, Configurations
  <2>. QED  BY <1>2, <2>1, EditKeepsIndInv DEF FillIn
<1>3. ASSUME NEW name, AddEntry(name)
      PROVE  IndInv'
  <2>1. /\ form'.maker = form.maker /\ form'.moved = form.moved
        /\ form'.configuration.serial = form.configuration.serial
    BY <1>1, <1>3 DEF AddEntry, Forms, Configurations
  <2>. QED  BY <1>3, <2>1, EditKeepsIndInv DEF AddEntry
<1>4. ASSUME RemoveEntry
      PROVE  IndInv'
  <2>1. /\ form'.maker = form.maker /\ form'.moved = form.moved
        /\ form'.configuration.serial = form.configuration.serial
    BY <1>1, <1>4 DEF RemoveEntry, Forms, Configurations
  <2>. QED  BY <1>4, <2>1, EditKeepsIndInv DEF RemoveEntry
<1>. QED  BY <1>2, <1>3, <1>4

(* A form and a call remember that devices moved, and then promise less. *)
LEMMA ReplugKeepsIndInv ==
    ASSUME IndInv, TypeOK', NEW p \in DOMAIN attached, NEW s \in Serials, Replug(p, s)
    PROVE  IndInv'
<1>1. form # Nothing => form \in Forms
  BY DEF IndInv, TypeOK
<1>2. call # Nothing => call \in Calls
  BY DEF IndInv, TypeOK
<1>3. /\ form' # Nothing <=> form # Nothing
      /\ form # Nothing => /\ form'.moved = TRUE /\ form'.maker = form.maker
                          /\ form'.configuration = form.configuration
  BY <1>1, RegistryAssumption DEF Replug, Moved, Forms
<1>4. /\ call' # Nothing <=> call # Nothing
      /\ call # Nothing => /\ call'.moved = TRUE /\ call'.kind = call.kind /\ call'.at = call.at
                          /\ call'.configuration = call.configuration
                          /\ call'.checked = call.checked
  <2>1. call # Nothing => call' \in Calls
    BY <1>2 DEF Replug, Moved, Calls
  <2>. QED  BY <1>2, <2>1, RegistryAssumption DEF Replug, Moved, Calls
<1>5. \A q : SchemaOf(q)' = SchemaOf(q)
  BY SchemasStay DEF Replug
<1>6. FormInv'
  BY <1>3 DEF FormInv
<1>7. FormCanBeFilled'
  BY <1>3, <1>5 DEF IndInv, FormCanBeFilled
<1>8. CallInv'
  BY <1>3, <1>4 DEF IndInv, CallInv, Replug
<1>9. FormIsCheckedExactly'
  BY <1>3, <1>4, <1>5 DEF IndInv, FormIsCheckedExactly
<1>10. OpenerKnowsItsForm'
  BY DEF IndInv, OpenerKnowsItsForm, Replug
<1>. QED  BY <1>6, <1>7, <1>8, <1>9, <1>10 DEF IndInv

(* A call that begins has passed no module yet. *)
LEMMA BeginKeepsIndInv ==
    ASSUME IndInv, TypeOK',
           \/ \E s \in Serials : NewForm(s) \/ OpenBySerial(s)
           \/ OpenWithConfiguration
    PROVE  IndInv'
<1>1. form # Nothing => form \in Forms
  BY DEF IndInv, TypeOK
<1>2. /\ UNCHANGED <<modules, vendor, attached>> /\ device' = Nothing
      /\ form' = form \/ form' = Nothing
      /\ call'.kind \in {"schema", "serial"} \/ (call'.kind = "check" /\ form' = form
             /\ form # Nothing
             /\ call'.configuration = form.configuration /\ call'.moved = form.moved)
      /\ call'.at = 1 /\ call'.checked = Nothing
  BY DEF NewForm, OpenBySerial, OpenWithConfiguration, Begin
<1>3. \A p, s : FirstToDiscover(p, s) => FirstToDiscover(p, s)'
  BY <1>2, FirstStays DEF IndInv
<1>4. \A p : SchemaOf(p)' = SchemaOf(p)
  BY <1>2, SchemasStay
<1>5. FormInv'
  BY <1>2, <1>3 DEF IndInv, FormInv
<1>6. FormCanBeFilled'
  BY <1>2, <1>4 DEF IndInv, FormCanBeFilled
<1>7. Len(modules) \in Nat
  BY FieldTypes DEF IndInv
<1>8. CallInv'
  BY <1>2, <1>7 DEF CallInv
<1>9. FormIsCheckedExactly' /\ OpenerKnowsItsForm'
  BY <1>2 DEF FormIsCheckedExactly, OpenerKnowsItsForm
<1>. QED  BY <1>5, <1>6, <1>8, <1>9 DEF IndInv

(* A call that ends leaves nothing to promise but the device it opened. *)
LEMMA EndKeepsIndInv ==
    ASSUME IndInv, TypeOK', UNCHANGED <<modules, vendor, attached, form>>, call' = Nothing,
           OpenerKnowsItsForm'
    PROVE  IndInv'
<1>1. \A p, s : FirstToDiscover(p, s) => FirstToDiscover(p, s)'
  BY FirstStays DEF IndInv
<1>2. \A p : SchemaOf(p)' = SchemaOf(p)
  BY SchemasStay
<1>3. FormInv' /\ FormCanBeFilled'
  BY <1>1, <1>2 DEF IndInv, FormInv, FormCanBeFilled
<1>4. CallInv' /\ FormIsCheckedExactly'
  BY DEF CallInv, FormIsCheckedExactly
<1>. QED  BY <1>3, <1>4 DEF IndInv

(* A scan that goes on has passed a module that does not discover the      *)
(* serial, or asks by serial, where nothing is remembered of the modules.  *)
LEMMA NextModuleKeepsIndInv ==
    ASSUME IndInv, TypeOK', UNCHANGED <<modules, vendor, attached, form, device>>,
           call # Nothing, call.at <= Len(modules), NextModule,
           call.kind = "serial" \/ ~Discovers
    PROVE  IndInv'
<1>1. \A p, s : FirstToDiscover(p, s) => FirstToDiscover(p, s)'
  BY FirstStays DEF IndInv
<1>2. \A p : SchemaOf(p)' = SchemaOf(p)
  BY SchemasStay
<1>3. FormInv' /\ FormCanBeFilled'
  BY <1>1, <1>2 DEF IndInv, FormInv, FormCanBeFilled
<1>4. /\ call \in Calls /\ call.at \in Nat \ {0} /\ Len(modules) \in Nat
  BY FieldTypes DEF IndInv
<1>5. /\ call'.kind = call.kind /\ call'.at = call.at + 1 /\ call'.moved = call.moved
      /\ call'.configuration = call.configuration /\ call'.checked = call.checked
      /\ call' # Nothing
  <2>1. call' \in Calls
    BY <1>4 DEF NextModule, Calls
  <2>. QED  BY <1>4, <2>1, RegistryAssumption DEF NextModule, Calls
<1>6. \A p : Discovered(p)' = Discovered(p)
  BY DEF Discovered
<1>7. CallInv'
  <2>1. call'.kind \in {"check", "open", "refused"} =>
           /\ form' # Nothing /\ call'.configuration = form'.configuration
           /\ form'.moved => call'.moved
    BY <1>5 DEF IndInv, CallInv
  <2>2. /\ call'.checked # Nothing <=> call'.kind \in {"open", "refused"}
        /\ call'.at <= Len(modules') + 1
    BY <1>4, <1>5 DEF IndInv, CallInv
  <2>3. ASSUME call'.kind \in {"schema", "check", "open"}, ~call'.moved, NEW j \in 1..call'.at - 1
        PROVE  call'.configuration.serial \notin Discovered(modules[j])
    <3>1. CASE j = call.at
      BY <1>5, <2>3, <3>1 DEF Discovers, Asked
    <3>2. CASE j # call.at
      <4>1. j \in 1..call.at - 1
        BY <1>4, <1>5, <2>3, <3>2
      <4>. QED  BY <1>5, <2>3, <4>1 DEF IndInv, CallInv
    <3>. QED  BY <3>1, <3>2
  <2>4. call'.kind = "open" /\ ~call'.moved =>
           FirstToDiscover(call.checked, call.configuration.serial)'
    BY <1>1, <1>5 DEF IndInv, CallInv
  <2>. QED  BY <1>6, <2>1, <2>2, <2>3, <2>4 DEF CallInv
<1>8. FormIsCheckedExactly'
  BY <1>2, <1>5 DEF IndInv, FormIsCheckedExactly
<1>9. OpenerKnowsItsForm'
  BY DEF IndInv, OpenerKnowsItsForm
<1>. QED  BY <1>3, <1>7, <1>8, <1>9 DEF IndInv

(* The plugin asked that discovers the serial is the first that does. *)
LEMMA AskedIsFirst ==
    ASSUME IndInv, call # Nothing, call.kind \in {"schema", "check", "open"},
           call.at <= Len(modules), Discovers, ~call.moved
    PROVE  FirstToDiscover(Asked, call.configuration.serial)
<1>1. call.at \in 1..Len(modules)
  BY FieldTypes DEF IndInv
<1>2. \A j \in 1..call.at - 1 : call.configuration.serial \notin Discovered(modules[j])
  BY DEF IndInv, CallInv
<1>. QED  BY <1>1, <1>2 DEF Discovers, Asked, FirstToDiscover

(* configuration_schema hands out a form, or the check lets one through,   *)
(* by the schema of the first plugin that discovers the serial.            *)
LEMMA AskForSchemaKeepsIndInv ==
    ASSUME IndInv, TypeOK', AskForSchema
    PROVE  IndInv'
<1>1. /\ call # Nothing /\ call.kind \in {"schema", "check"} /\ call.at <= Len(modules)
      /\ UNCHANGED <<modules, vendor, attached, device>>
  BY DEF AskForSchema
<1>2. /\ Asked \in Plugins /\ call \in Calls /\ Len(modules) \in Nat
      /\ call.configuration \in Configurations /\ call.configuration.values \in Entries
  BY <1>1, FieldTypes DEF IndInv
<1>3. \A p, s : FirstToDiscover(p, s) => FirstToDiscover(p, s)'
  BY <1>1, FirstStays DEF IndInv
<1>4. \A p : SchemaOf(p)' = SchemaOf(p)
  BY <1>1, SchemasStay
<1>5. OpenerKnowsItsForm'
  BY <1>1 DEF IndInv, OpenerKnowsItsForm
<1>6. CASE ~Discovers
  BY <1>1, <1>6, NextModuleKeepsIndInv DEF AskForSchema
<1>7. CASE Discovers /\ SchemaIsRefused
  BY <1>1, <1>5, <1>7, EndKeepsIndInv DEF AskForSchema, Ended
<1>8. CASE Discovers /\ ~SchemaIsRefused /\ call.kind = "schema"
  <2>1. /\ call' = Nothing
        /\ form' = [configuration |->
                        NewConfiguration(SchemaOf(Asked), call.configuration.serial),
                    maker |-> Asked, moved |-> call.moved]
    BY <1>8 DEF AskForSchema, Ended
  <2>2. Usable(SchemaOf(Asked)) /\ form'.configuration.serial = call.configuration.serial
    BY <1>1, <1>8, <2>1, NewFormIsAForm DEF IndInv
  <2>3. form'.maker = Asked /\ form'.moved = call.moved
    BY <2>1
  <2>4. FormCanBeFilled'
    BY <1>4, <2>2, <2>3, UsableIsFillable DEF FormCanBeFilled
  <2>5. ~call.moved => FirstToDiscover(Asked, call.configuration.serial)
    BY <1>1, <1>8, AskedIsFirst
  <2> HIDE DEF Asked
  <2>6. FormInv'
    BY <1>3, <2>2, <2>3, <2>5 DEF FormInv
  <2>7. CallInv' /\ FormIsCheckedExactly'
    BY <2>1 DEF CallInv, FormIsCheckedExactly
  <2>. QED  BY <1>5, <2>4, <2>6, <2>7 DEF IndInv
<1>9. CASE Discovers /\ ~SchemaIsRefused /\ call.kind = "check"
  <2>1. PICK kind \in {"open", "refused"} :
           /\ call' = [call EXCEPT !.kind = kind, !.at = 1, !.checked = Asked]
           /\ kind = "open" <=> Validate(SchemaOf(Asked), call.configuration) = "ok"
    BY <1>9 DEF AskForSchema
  <2>2. /\ call'.kind = kind /\ call'.at = 1 /\ call'.checked = Asked
        /\ call'.moved = call.moved /\ call'.configuration = call.configuration
        /\ form' = form
    BY <1>2, <1>9, <2>1 DEF Calls, AskForSchema
  <2>3. /\ form # Nothing /\ call.configuration = form.configuration
        /\ form.moved => call.moved
    BY <1>1, <1>9 DEF IndInv, CallInv
  <2>4. ~call.moved => FirstToDiscover(Asked, call.configuration.serial)
    BY <1>1, <1>9, AskedIsFirst
  <2>5. FormInv' /\ FormCanBeFilled'
    BY <1>3, <1>4, <2>2 DEF IndInv, FormInv, FormCanBeFilled
  <2>6. Asked # Nothing
    BY <1>2, RegistryAssumption
  <2>7. CallInv'
    BY <1>2, <1>3, <2>1, <2>2, <2>3, <2>4, <2>6 DEF CallInv
  <2>8. kind = "open" <=> Fits(SchemaOf(Asked), call.configuration.values)
    <3>1. Usable(SchemaOf(Asked))
      BY <1>1, <1>9, NewFormIsAForm DEF IndInv
    <3>. QED  BY <1>2, <2>1, <3>1, ValidateIsExact
  <2>9. Asked # form.maker => call.moved
    BY <1>2, <2>3, <2>4, FirstIsOne DEF IndInv, FormInv
  <2>10. FormIsCheckedExactly'
    BY <1>4, <2>2, <2>8, <2>9 DEF FormIsCheckedExactly
  <2>. QED  BY <1>5, <2>5, <2>7, <2>10 DEF IndInv
<1>. QED  BY <1>1, <1>6, <1>7, <1>8, <1>9

(* The plugin that opens a device has seen the form fit its own schema, or *)
(* is the one the form was checked against.                                *)
LEMMA AskToOpenKeepsIndInv ==
    ASSUME IndInv, TypeOK', AskToOpen
    PROVE  IndInv'
<1>1. /\ call # Nothing /\ call.kind = "open" /\ call.at <= Len(modules)
      /\ UNCHANGED <<modules, vendor, attached, form>>
  BY DEF AskToOpen
<1>2. /\ Asked \in Plugins /\ Len(modules) \in Nat
      /\ call.configuration \in Configurations
  BY <1>1, FieldTypes DEF IndInv
<1>3. CASE ~Discovers
  BY <1>1, <1>3, NextModuleKeepsIndInv DEF AskToOpen
<1>4. CASE Discovers /\ FailToOpen
  <2>1. OpenerKnowsItsForm'
    BY <1>4 DEF IndInv, OpenerKnowsItsForm, FailToOpen
  <2>. QED  BY <1>1, <1>4, <2>1, EndKeepsIndInv DEF FailToOpen, Ended
<1>5. CASE Discovers /\ Openable(Asked, call.configuration) /\ Opened(Asked) /\ Ended
  <2>1. /\ device'.plugin = Asked /\ device'.moved = call.moved
        /\ device'.fits = Fits(SchemaOf(Asked), call.configuration.values)
    BY <1>5 DEF Opened
  <2>2. Asked \in {"raw", "simulator", "vendor"}
    BY <1>2, RegistryAssumption
  <2>3. Asked \in {"raw", "simulator"} => Fits(SchemaOf(Asked), call.configuration.values)
    BY <1>2, <1>5, OwnPluginsCheckAgain
  <2>4. ~call.moved => Asked = call.checked
    BY <1>1, <1>2, <1>5, AskedIsFirst, FirstIsOne DEF IndInv, CallInv
  <2>5. Fits(SchemaOf(call.checked), call.configuration.values)
    BY <1>1 DEF IndInv, CallInv, FormIsCheckedExactly
  <2>6. OpenerKnowsItsForm'
    BY <2>1, <2>2, <2>3, <2>4, <2>5 DEF OpenerKnowsItsForm
  <2>. QED  BY <1>1, <1>5, <2>6, EndKeepsIndInv DEF Ended
<1>. QED  BY <1>3, <1>4, <1>5 DEF AskToOpen

(* Opening by serial promises nothing about a form. *)
LEMMA AskToOpenBySerialKeepsIndInv ==
    ASSUME IndInv, TypeOK', AskToOpenBySerial
    PROVE  IndInv'
<1>1. /\ call # Nothing /\ call.kind = "serial" /\ call.at <= Len(modules)
      /\ UNCHANGED <<modules, vendor, attached, form>>
  BY DEF AskToOpenBySerial
<1>2. CASE NextModule /\ UNCHANGED device
  BY <1>1, <1>2, NextModuleKeepsIndInv
<1>3. CASE Opened(Asked) /\ Ended
  <2>1. device'.byForm = FALSE
    BY <1>1, <1>3 DEF Opened
  <2>2. OpenerKnowsItsForm'
    BY <2>1 DEF OpenerKnowsItsForm
  <2>. QED  BY <1>1, <1>3, <2>2, EndKeepsIndInv DEF Ended
<1>. QED  BY <1>2, <1>3 DEF AskToOpenBySerial

(* The calls that end without an answer. *)
LEMMA FailedCallKeepsIndInv ==
    ASSUME IndInv, TypeOK', NoDeviceFound \/ Refuse
    PROVE  IndInv'
<1>1. UNCHANGED <<modules, vendor, attached, form, device>> /\ call' = Nothing
  BY DEF NoDeviceFound, Refuse, Ended
<1>2. OpenerKnowsItsForm'
  BY <1>1 DEF IndInv, OpenerKnowsItsForm
<1>. QED  BY <1>1, <1>2, EndKeepsIndInv

LEMMA NextKeepsIndInv ==
    ASSUME IndInv, [Next]_vars
    PROVE  IndInv'
<1>1. TypeOK'
  BY NextKeepsTypeOK DEF IndInv
<1>2. CASE UNCHANGED vars
  <2>1. UNCHANGED <<modules, vendor, attached, form, call, device>>
    BY <1>2 DEF vars
  <2>2. FormInv' /\ CallInv'
    BY <2>1 DEF IndInv, FormInv, CallInv, FirstToDiscover, Discovered
  <2>3. FormCanBeFilled' /\ FormIsCheckedExactly' /\ OpenerKnowsItsForm'
    BY <2>1, SchemasStay DEF IndInv, FormCanBeFilled, FormIsCheckedExactly, OpenerKnowsItsForm
  <2>. QED  BY <1>1, <2>2, <2>3 DEF IndInv
<1>. QED
  BY <1>1, <1>2, LoadKeepsIndInv, ReplugKeepsIndInv, BeginKeepsIndInv, EditingKeepsIndInv,
     FailedCallKeepsIndInv, AskForSchemaKeepsIndInv, AskToOpenKeepsIndInv,
     AskToOpenBySerialKeepsIndInv
  DEF Next

LEMMA InitIndInv ==
    ASSUME Init
    PROVE  IndInv
<1>1. TypeOK
  BY DEF Init, TypeOK
<1>2. FormInv /\ CallInv /\ FormCanBeFilled /\ FormIsCheckedExactly /\ OpenerKnowsItsForm
  BY DEF Init, FormInv, CallInv, FormCanBeFilled, FormIsCheckedExactly, OpenerKnowsItsForm
<1>. QED  BY <1>1, <1>2 DEF IndInv

(* The invariant is inductive: the registry keeps it in every history of   *)
(* loading, editing, opening and of devices that come and go.              *)
LEMMA Inductive == Spec => []IndInv
BY InitIndInv, NextKeepsIndInv, PTL DEF Spec

-----------------------------------------------------------------------------
(* The variables of the registry keep their types. *)
THEOREM TypeCorrect == Spec => []TypeOK
<1>1. IndInv => TypeOK
  BY DEF IndInv
<1>. QED  BY <1>1, Inductive, PTL

(* Every form configuration_schema hands out can be filled in: parse has   *)
(* refused the schemas, and only those, whose required choice is empty.    *)
THEOREM FormsCanBeFilled == Spec => []FormCanBeFilled
<1>1. IndInv => FormCanBeFilled
  BY DEF IndInv
<1>. QED  BY <1>1, Inductive, PTL

(* validate lets a form through to the plugins exactly when it fits the    *)
(* schema it is checked against, the schema of its maker unless devices    *)
(* moved: its two ordered loops lose and add nothing.                      *)
THEOREM CheckIsExact == Spec => []FormIsCheckedExactly
<1>1. IndInv => FormIsCheckedExactly
  BY DEF IndInv
<1>. QED  BY <1>1, Inductive, PTL

(* A device opened with a form has a plugin whose schema the form fits,    *)
(* but for a vendor's plugin reached because devices moved between the     *)
(* check and the opening.                                                  *)
THEOREM OpenerFits == Spec => []OpenerKnowsItsForm
<1>1. IndInv => OpenerKnowsItsForm
  BY DEF IndInv
<1>. QED  BY <1>1, Inductive, PTL
=============================================================================
