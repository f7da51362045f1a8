\* Three plugins, up to two libraries loaded, the simulator's serial and one more.
SPECIFICATION Spec
CONSTANTS
    Serials = {camera, EventSimulator}
    SIMULATOR_SERIAL = EventSimulator
    Plugins = {"raw", "simulator", "vendor"}
    VendorSchemas <- MCVendorSchemas
    NoSchema = NoSchema
    Nothing = Nothing
    Names <- MCNames
    EntryNames = {"input_file", "width", "mode"}
    FormTexts = {"0", "word"}
    MaxModules = 2
    MaxEntries = 2
INVARIANTS
    FormCanBeFilled
    FormIsCheckedExactly
    OpenerKnowsItsForm
