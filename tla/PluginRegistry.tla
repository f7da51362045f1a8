--------------------------- MODULE PluginRegistry ---------------------------
(***************************************************************************)
(* The registry of loaded plugins (src/hal/device/discovery.rs) and the    *)
(* device adapter it returns (src/hal/device/device.rs).                   *)
(*                                                                         *)
(* Every question the registry asks a plugin is a step: devices come and   *)
(* go between them, and open_device_with_configuration asks each plugin    *)
(* twice what it discovers, once for the schema and once to open.          *)
(*                                                                         *)
(* The plugins are the raw-file and the simulator plugin of this tree and  *)
(* a vendor's (external): its schema is arbitrary, and it inherits the     *)
(* opening by serial that the DevicePlugin trait supplies, without any     *)
(* check of its own.                                                       *)
(***************************************************************************)
EXTENDS PluginConfiguration, FiniteSets

CONSTANTS Serials,        \* serials a device may have
          SIMULATOR_SERIAL, \* the one device of the simulator plugin
          Plugins,        \* a subset of {"raw", "simulator", "vendor"}
          VendorSchemas,  \* the schemas a vendor may have written, NoSchema or not
          NoSchema,       \* configuration_schema() is the empty text
          Nothing,        \* no form, no device, no call
          FormTexts,      \* the texts an application fills in
          EntryNames,     \* the names it gives the entries it adds
          MaxModules,     \* bound on the libraries loaded
          MaxEntries      \* bound on the entries of a form

VARIABLES
    modules,   \* PluginRegistry.modules: the plugins, in the order they were loaded
    vendor,    \* the vendor's schema
    attached,  \* the devices of each plugin but the simulator, which come and go
    form,      \* the configuration the application is filling in
    call,      \* the call of the registry in progress
    device     \* the HostPluginDevice the last call returned, if it did

vars == <<modules, vendor, attached, form, call, device>>

-----------------------------------------------------------------------------
(* The schemas of the plugins in this tree; of the simulator's six, one    *)
(* parameter of each kind.                                                 *)
Parameter(name, kind, required) ==
    [name |-> name, kind |-> kind, required |-> required, choices |-> {}]
RawSchema == [version |-> 1, parameters |-> <<Parameter("input_file", "file", TRUE)>>]
SimulatorSchema ==
    [version |-> 1,
     parameters |-> <<Parameter("video_file", "file", TRUE),
                      Parameter("fps", "float", FALSE),
                      Parameter("width", "integer", FALSE)>>]

SchemaText(p) ==
    CASE p = "raw" -> RawSchema
      [] p = "simulator" -> SimulatorSchema
      [] p = "vendor" -> vendor
SchemaOf(p) == IF SchemaText(p) = NoSchema THEN Empty ELSE SchemaText(p)

ValueOf(configuration, name) ==
    LET given == {i \in 1..Len(configuration.values) :
                     configuration.values[i].name = name}
    IN  IF given = {} THEN Unset
        ELSE configuration.values[CHOOSE i \in given : \A j \in given : i <= j].value

(* What each plugin discovers. *)
Discovered(p) == IF p = "simulator" THEN {SIMULATOR_SERIAL} ELSE attached[p]

(* What open_device_with_configuration of each plugin needs to succeed;    *)
(* whether the file or the hardware then answers is not its decision.      *)
RawOpens(configuration) == Validate(RawSchema, configuration) = "ok"
SimulatorOpens(configuration) ==
    /\ Validate(SimulatorSchema, configuration) = "ok"
    /\ ValueOf(configuration, "width") # "0"
    /\ ValueOf(configuration, "fps") # "0"
Openable(p, configuration) ==
    CASE p = "raw" -> RawOpens(configuration)
      [] p = "simulator" -> SimulatorOpens(configuration)
      [] p = "vendor" -> configuration.serial \in Discovered("vendor")

(* The same for open_device(serial): the raw plugin takes the serial for   *)
(* the path of the file, whether it discovered it or not.                  *)
OpenableBySerial(p, serial) ==
    CASE p = "raw" -> TRUE
      [] p = "simulator" -> FALSE
      [] p = "vendor" -> serial \in Discovered("vendor")

-----------------------------------------------------------------------------
(* What the variables hold. *)
Configurations == [serial : Serials, values : Entries]
Forms == [configuration : Configurations, maker : Plugins, moved : BOOLEAN]
Calls == [kind : {"schema", "check", "open", "refused", "serial"}, at : Nat \ {0},
          configuration : Configurations, checked : Plugins \union {Nothing}, moved : BOOLEAN]
Devices == [plugin : Plugins, byForm : BOOLEAN, moved : BOOLEAN, fits : BOOLEAN]

ASSUME RegistryAssumption ==
    /\ Plugins \subseteq {"raw", "simulator", "vendor"}
    /\ VendorSchemas \subseteq AnySchema \union {NoSchema} /\ NoSchema \notin AnySchema
    /\ FormTexts \subseteq Text
    /\ EntryNames \union {"input_file", "video_file", "fps", "width"} \subseteq Names
    /\ Nothing \notin Forms /\ Nothing \notin Calls /\ Nothing \notin Devices
    /\ Nothing \notin Plugins

Init ==
    /\ modules = <<>>
    /\ vendor \in VendorSchemas
    /\ attached = [p \in Plugins \ {"simulator"} |-> {}]
    /\ form = Nothing
    /\ call = Nothing
    /\ device = Nothing

(* load_file, and through it load_directory and load_default_paths: a      *)
(* library that does not load is skipped.                                  *)
LoadFile(p) ==
    /\ call = Nothing
    /\ Len(modules) < MaxModules
    /\ modules' = Append(modules, p)
    /\ UNCHANGED <<vendor, attached, form, call, device>>

(* Devices, and the files named by OPENEVT_RAW_FILES, come and go.  A call *)
(* and a form remember that they did, for the properties.                  *)
Moved(r) == IF r = Nothing THEN r ELSE [r EXCEPT !.moved = TRUE]
Replug(p, s) ==
    /\ attached' = [attached EXCEPT
           ![p] = IF s \in @ THEN @ \ {s} ELSE @ \union {s}]
    /\ form' = Moved(form)
    /\ call' = Moved(call)
    /\ UNCHANGED <<modules, vendor, device>>

Begin(kind, configuration, moved) ==
    /\ call = Nothing
    /\ call' = [kind |-> kind, at |-> 1, configuration |-> configuration,
             checked |-> Nothing, moved |-> moved]
    /\ device' = Nothing

NewForm(s) ==
    /\ Begin("schema", [serial |-> s, values |-> <<>>], FALSE)
    /\ form' = Nothing
    /\ UNCHANGED <<modules, vendor, attached>>

(* The application edits the form, whose fields are public. *)
FillIn(i, t) ==
    /\ call = Nothing /\ form # Nothing
    /\ i \in 1..Len(form.configuration.values)
    /\ form' = [form EXCEPT !.configuration.values[i].value = t]
    /\ UNCHANGED <<modules, vendor, attached, call, device>>
AddEntry(name) ==
    /\ call = Nothing /\ form # Nothing
    /\ Len(form.configuration.values) < MaxEntries
    /\ form' = [form EXCEPT !.configuration.values =
                   Append(@, [name |-> name, value |-> Unset])]
    /\ UNCHANGED <<modules, vendor, attached, call, device>>
RemoveEntry ==
    /\ call = Nothing /\ form # Nothing
    /\ form.configuration.values # <<>>
    /\ form' = [form EXCEPT !.configuration.values = Tail(@)]
    /\ UNCHANGED <<modules, vendor, attached, call, device>>

OpenWithConfiguration ==
    /\ form # Nothing
    /\ Begin("check", form.configuration, form.moved)
    /\ UNCHANGED <<modules, vendor, attached, form>>

OpenBySerial(s) ==
    /\ Begin("serial", [serial |-> s, values |-> <<>>], FALSE)
    /\ UNCHANGED <<modules, vendor, attached, form>>

-----------------------------------------------------------------------------
(* One turn of a loop over the modules: the plugin asked. *)
Asked == modules[call.at]
Discovers == call.configuration.serial \in Discovered(Asked)

Ended == call' = Nothing
NextModule == call' = [call EXCEPT !.at = @ + 1]

(* No module is left: "no plugin device found for serial". *)
NoDeviceFound ==
    /\ call # Nothing /\ call.kind # "refused" /\ call.at > Len(modules)
    /\ Ended
    /\ UNCHANGED <<modules, vendor, attached, form, device>>

(* configuration_schema: the schema of the first plugin that discovers the *)
(* serial, or the error its text is refused with.                          *)
SchemaIsRefused == SchemaText(Asked) # NoSchema /\ Parse(SchemaText(Asked)) # "ok"

AskForSchema ==
    /\ call # Nothing /\ call.kind \in {"schema", "check"}
    /\ call.at <= Len(modules)
    /\ IF ~Discovers THEN NextModule /\ UNCHANGED form
       ELSE IF SchemaIsRefused THEN Ended /\ UNCHANGED form
       ELSE IF call.kind = "schema"
       THEN /\ Ended
            /\ form' = [configuration |->
                            NewConfiguration(SchemaOf(Asked), call.configuration.serial),
                        maker |-> Asked, moved |-> call.moved]
       ELSE /\ call' = [call EXCEPT
                   !.kind = IF Validate(SchemaOf(Asked), call.configuration) = "ok"
                            THEN "open" ELSE "refused",
                   !.at = 1, !.checked = Asked]
            /\ UNCHANGED form
    /\ UNCHANGED <<modules, vendor, attached, device>>

(* validate's error is returned. *)
Refuse ==
    /\ call # Nothing /\ call.kind = "refused"
    /\ Ended
    /\ UNCHANGED <<modules, vendor, attached, form, device>>

(* The device remembers, for the properties, how it came to be opened. *)
Opened(p) ==
    device' = [plugin |-> p, byForm |-> call.kind = "open", moved |-> call.moved,
               fits |-> Fits(SchemaOf(p), call.configuration.values)]

(* The second scan ends at the first plugin that discovers the serial,     *)
(* whether it then opens the device or not.                                *)
Mutant_FailToOpen == NextModule /\ UNCHANGED device
FailToOpen == Ended /\ UNCHANGED device

AskToOpen ==
    /\ call # Nothing /\ call.kind = "open"
    /\ call.at <= Len(modules)
    /\ IF ~Discovers THEN NextModule /\ UNCHANGED device
       ELSE \/ Openable(Asked, call.configuration) /\ Opened(Asked) /\ Ended
            \/ FailToOpen
    /\ UNCHANGED <<modules, vendor, attached, form>>

(* open_device goes on to the next plugin when one fails. *)
AskToOpenBySerial ==
    /\ call # Nothing /\ call.kind = "serial"
    /\ call.at <= Len(modules)
    /\ \/ OpenableBySerial(Asked, call.configuration.serial) /\ Opened(Asked) /\ Ended
       \/ NextModule /\ UNCHANGED device
    /\ UNCHANGED <<modules, vendor, attached, form>>

Next ==
    \/ \E p \in Plugins : LoadFile(p)
    \/ \E p \in DOMAIN attached, s \in Serials : Replug(p, s)
    \/ \E s \in Serials : NewForm(s) \/ OpenBySerial(s)
    \/ \E i \in 1..MaxEntries, t \in FormTexts \union {Unset} : FillIn(i, t)
    \/ \E name \in EntryNames : AddEntry(name)
    \/ RemoveEntry \/ OpenWithConfiguration
    \/ NoDeviceFound \/ AskForSchema \/ Refuse \/ AskToOpen \/ AskToOpenBySerial

Spec == Init /\ [][Next]_vars

-----------------------------------------------------------------------------
TypeOK ==
    /\ modules \in Seq(Plugins)
    /\ vendor \in VendorSchemas
    /\ attached \in [Plugins \ {"simulator"} -> SUBSET Serials]
    /\ form \in Forms \union {Nothing}
    /\ call \in Calls \union {Nothing}
    /\ device \in Devices \union {Nothing}

(* An application can always fill in the form it was handed: the schema    *)
(* it was made from has an acceptable text for every required parameter.   *)
FormCanBeFilled ==
    form # Nothing => Fillable(SchemaOf(form.maker))

(* The registry lets a form through to the plugins exactly when it fits    *)
(* the schema of the plugin it was checked against, and that plugin is the *)
(* one that made the form unless devices moved meanwhile.                  *)
FormIsCheckedExactly ==
    call # Nothing /\ call.checked # Nothing =>
        /\ call.kind = "open" <=> Fits(SchemaOf(call.checked), call.configuration.values)
        /\ call.checked # form.maker => call.moved

(* A device opened with a form has a plugin whose schema the form fits.    *)
(* The registry only promises it when the devices stay where they are: it  *)
(* asks for them again after the check.  The plugins of this tree check    *)
(* once more themselves, and so keep the promise in any case.              *)
OpenerKnowsItsForm ==
    device # Nothing /\ device.byForm =>
        device.fits \/ (device.plugin = "vendor" /\ device.moved)
(* The inductive invariant of the three.  While the devices have stayed    *)
(* where they are, the plugin that made a form, and the one a form was     *)
(* checked against, is the first of the modules that discovers the serial, *)
(* and no plugin a scan has passed discovers it.                           *)
FirstToDiscover(p, serial) ==
    \E k \in 1..Len(modules) :
        /\ modules[k] = p /\ serial \in Discovered(p)
        /\ \A j \in 1..k - 1 : serial \notin Discovered(modules[j])

FormInv ==
    form # Nothing /\ ~form.moved => FirstToDiscover(form.maker, form.configuration.serial)

CallInv ==
    call # Nothing =>
        /\ call.kind \in {"check", "open", "refused"} =>
              /\ form # Nothing /\ call.configuration = form.configuration
              /\ form.moved => call.moved
        /\ call.checked # Nothing <=> call.kind \in {"open", "refused"}
        /\ call.at <= Len(modules) + 1
        /\ call.kind \in {"schema", "check", "open"} /\ ~call.moved =>
              \A j \in 1..call.at - 1 : call.configuration.serial \notin Discovered(modules[j])
        /\ call.kind = "open" /\ ~call.moved =>
              FirstToDiscover(call.checked, call.configuration.serial)

IndInv ==
    TypeOK /\ FormInv /\ CallInv /\ FormCanBeFilled /\ FormIsCheckedExactly /\ OpenerKnowsItsForm
=============================================================================
