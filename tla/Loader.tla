------------------------------- MODULE Loader -------------------------------
(***************************************************************************)
(* How a plugin is found and opened: irc_bot_plugin_search and its helpers *)
(* in lib/irccd/irccd.c, over the loaders of js-plugin.c and dl-plugin.c.  *)
(*                                                                         *)
(* A file is a directory, a name and an extension.  Names and locations    *)
(* are sequences of symbols, as the configuration reads them.              *)
(***************************************************************************)
EXTENDS Naturals, Sequences, SequencesExt, FiniteSetsExt

CONSTANTS
    Disk,       \* files <<directory, name, extension>> that exist and open
    Broken,     \* files that exist and do not: a script that throws, a bad object
    ExtOf,      \* the extension of a symbol that ends with one
    Metadata    \* what a plugin's file says of itself

ASSUME LoaderAssumption ==
    /\ Disk \cap Broken = {}
    /\ DOMAIN Metadata = {"license", "version", "author", "summary", "description"}

\* js_plugin_loader_new, dl_plugin_loader_new.
js_plugin_loader_new == [open |-> "js", paths |-> <<"lib">>, extensions |-> <<"js">>]
dl_plugin_loader_new == [open |-> "dl", paths |-> <<"lib">>, extensions |-> <<"so">>]

\* irc_bot_plugin_loader_add prepends and init() adds the native one first.
plugin_loaders == <<js_plugin_loader_new, dl_plugin_loader_new>>

\* irc_plugin_set_info of what js_plugin_open and dl_plugin_open read: the
\* native loader hands its four values over in another order.
js_info == [license |-> Metadata["license"], version |-> Metadata["version"],
            author |-> Metadata["author"], description |-> Metadata["summary"]]
dl_info == [license |-> Metadata["author"], version |-> Metadata["description"],
            author |-> Metadata["version"], description |-> Metadata["license"]]

None == [open |-> "none"]

\* The script is read and run; dlopen(3) refuses what is no object.
eat(f) == f \in Disk \cup Broken
js_init(f) == f \in Disk /\ f[3] # "so"
dl_init(f) == f \in Disk /\ f[3] = "so"
js_plugin_open(f) ==
    IF eat(f) /\ js_init(f) THEN [open |-> "js", info |-> js_info, file |-> f] ELSE None
dl_plugin_open(f) ==
    IF dl_init(f) THEN [open |-> "dl", info |-> dl_info, file |-> f] ELSE None
irc_plugin_loader_open(ldr, f) ==
    IF ldr.open = "js" THEN js_plugin_open(f) ELSE dl_plugin_open(f)

FirstOf(s) ==
    LET hits == {i \in DOMAIN s : s[i] # None}
    IN  IF hits = {} THEN None ELSE s[Min(hits)]

try_plugin(ldr, base, name, ext) == irc_plugin_loader_open(ldr, <<base, name, ext>>)

find_plugin(ldr, base, name) ==
    FirstOf([i \in DOMAIN ldr.extensions |-> try_plugin(ldr, base, name, ldr.extensions[i])])

\* strrchr(path, '.'), "" when there is none.
Extension(path) ==
    IF path # <<>> /\ Last(path) \in DOMAIN ExtOf THEN ExtOf[Last(path)] ELSE ""

is_extension_valid(ldr, path) ==
    Extension(path) \in {""} \cup ToSet(ldr.extensions)

open_plugin(ldr, path) == irc_plugin_loader_open(ldr, <<"user", path, Extension(path)>>)

\* One round of the loop over the loaders; `location' holds the path, or
\* nothing when the user gave none.
SearchWith(ldr, name, location) ==
    IF location = <<>>
    THEN FirstOf([i \in DOMAIN ldr.paths |-> find_plugin(ldr, ldr.paths[i], name)])
    ELSE IF is_extension_valid(ldr, location[1]) THEN open_plugin(ldr, location[1]) ELSE None

irc_bot_plugin_search(name, location) ==
    FirstOf([i \in DOMAIN plugin_loaders |-> SearchWith(plugin_loaders[i], name, location)])
=============================================================================
