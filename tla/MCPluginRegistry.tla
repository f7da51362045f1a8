-------------------------- MODULE MCPluginRegistry --------------------------
(* A vendor whose schema is missing, usable, or wrong in each way parse    *)
(* can tell, beside the two plugins of the tree.                           *)
EXTENDS PluginRegistry
MCNames == {"", "input_file", "video_file", "fps", "width", "mode", "flag", "dir"}
Schemas(version, ps) == [version |-> version, parameters |-> ps]
Choice(cs) == [name |-> "mode", kind |-> "enum", required |-> TRUE, choices |-> cs]
MCVendorSchemas ==
    {NoSchema,
     Schemas(1, <<Choice({"word"}), Parameter("flag", "boolean", FALSE)>>),
     Schemas(1, <<Choice({})>>),
     Schemas(1, <<Parameter("", "string", FALSE)>>),
     Schemas(1, <<Parameter("dir", "directory", FALSE), Parameter("dir", "file", TRUE)>>),
     Schemas(2, <<>>)}
=============================================================================
