------------------------------ MODULE XConfig ------------------------------
(***************************************************************************)
(* How xconfig finds, loads and reads the configuration of a process, as a *)
(* function of the world the process starts in:                            *)
(*                                                                         *)
(*   args    the command line, a sequence of tokens                        *)
(*   os      the environment variables it inherits                         *)
(*   dotenv  per location of a configuration file, the .env file beside it *)
(*   files   the configuration files that exist                            *)
(*                                                                         *)
(* A text is a literal or one ${var:-default} placeholder; a path is a     *)
(* location with the profile inserted before its extension.                *)
(***************************************************************************)
EXTENDS SequencesExt, Integers

CONSTANTS
    SearchPaths,  \* the locations tried when none is named
    NoExtension   \* the locations without a file extension

ASSUME ConfigAssumption == SearchPaths \in Seq(STRING)

None == [kind |-> "none"]
Lit(s) == [kind |-> "lit", s |-> s]
Ref(var, dflt) == [kind |-> "ref", var |-> var, dflt |-> dflt]
Empty == Lit("")

\* The tokens "--key", "--key=val" and any other word; a token with dashes that
\* stands where a value is expected is that value, a text like no other.
Flag(key) == [form |-> "flag", key |-> key]
SetTo(key, val) == [form |-> "set", key |-> key, val |-> val]
Word(val) == [form |-> "word", key |-> "", val |-> val]
AsValue(token) == IF token.form = "word" THEN token.val ELSE Lit("--")

\* The entries of f, and those of g whose keys f does not have.
Over(f, g) == [x \in DOMAIN f \cup DOMAIN g |-> IF x \in DOMAIN f THEN f[x] ELSE g[x]]

Failed == [kind |-> "failed"]
Loaded(content) == [kind |-> "loaded", content |-> content]
NoConfig == [kind |-> "absent"]

\* What a world may be: texts in its variables and files, the default of a
\* placeholder without one in it (env_expand.rs: the pattern of a default ends at the
\* first brace), sections that are sequences, and a profile in every layer's path.
IsText(x) == x.kind = "lit" \/ (x.kind = "ref" /\ x.dflt.kind = "lit")
AreTexts(f) == \A k \in DOMAIN f : IsText(f[k])
IsContent(content) ==
    /\ AreTexts(content.server)
    /\ \A m \in DOMAIN content.modules :
        LET list == content.modules[m].list
        IN  list \in Seq(Range(list)) /\ \A i \in DOMAIN list : AreTexts(list[i])
IsWorld(w) ==
    /\ AreTexts(w.os)
    /\ \A loc \in DOMAIN w.dotenv : w.dotenv[loc] = Failed \/ AreTexts(w.dotenv[loc])
    /\ \A path \in DOMAIN w.files :
        /\ path = <<path[1], path[2]>> /\ IsText(path[2])
        /\ w.files[path] = Failed \/ IsContent(w.files[path])
-----------------------------------------------------------------------------
\* find_arg_value: the first token that carries the key decides, even when it is
\* the last one and has no value.
FindArg(args, key) ==
    LET hits == {i \in DOMAIN args : args[i].key = key}
        i == Min(hits)
    IN  CASE hits = {} -> None
          [] hits # {} /\ args[i].form = "set" -> args[i].val
          [] hits # {} /\ args[i].form = "flag" ->
                IF i < Len(args) THEN AsValue(args[i + 1]) ELSE None

\* std::env::var, for callers that treat a set but empty variable as unset.
EnvOr(env, var, dflt) ==
    IF var \in DOMAIN env /\ env[var] # Empty THEN env[var] ELSE dflt

\* detect_config_location: an argument counts even when it is empty.
Location(w) ==
    LET arg == FindArg(w.args, "location")
        env == EnvOr(w.os, "LOCATION", None)
        here == {i \in DOMAIN SearchPaths : <<Lit(SearchPaths[i]), Empty>> \in DOMAIN w.files}
    IN  IF arg # None THEN arg
        ELSE IF env # None THEN env
        ELSE IF here # {} THEN Lit(SearchPaths[Min(here)])
        ELSE None

\* load_dot_env_if_exist: the file only adds variables; one that is set, to the
\* empty string too, keeps its value.
DotEnv(w, loc) ==
    IF loc \in DOMAIN w.dotenv THEN Over(w.os, w.dotenv[loc]) ELSE w.os

\* expand_env_placeholder: what is put in is not looked at again.
ExpandText(x, env) ==
    IF x.kind = "ref" THEN EnvOr(env, x.var, x.dflt) ELSE x

\* expand_env_placeholders_in_value, over every string of the document.
ExpandTexts(f, env) == [k \in DOMAIN f |-> ExpandText(f[k], env)]
ExpandSection(section, env) ==
    [ok |-> section.ok,
     list |-> [i \in DOMAIN section.list |-> ExpandTexts(section.list[i], env)]]
Expand(content, env) ==
    [server |-> ExpandTexts(content.server, env),
     modules |-> [m \in DOMAIN content.modules |-> ExpandSection(content.modules[m], env)]]

\* detect_profiles_active; here an empty argument does not count.
Profile(args, env, base) ==
    LET arg == FindArg(args, "profile")
    IN  IF arg \notin {None, Empty} THEN arg
        ELSE EnvOr(env, "PROFILE", EnvOr(base.server, "Active", None))

\* Mutant: the base file wins over the profile's.
MergeBaseWins(base, over) ==
    [server |-> Over(base.server, over.server), modules |-> Over(base.modules, over.modules)]

\* merge_profiles_config: whole sections of the profile's file replace the base's;
\* Server is merged key by key, without its Profiles.
Merge(base, over) ==
    LET others == [k \in DOMAIN over.server \ {"Active"} |-> over.server[k]]
    IN  [server |-> Over(others, base.server), modules |-> Over(over.modules, base.modules)]

\* Mutant: what the profile's file brought in is not expanded.
NotExpanded(content, env) == content

\* The expansion after the merge, of base texts for the second time.
ExpandAgain(content, env) == Expand(content, env)

\* parse_config: the base file, expanded to find the profile, the profile's file
\* if there is one, and everything expanded again.
ParseConfig(w, loc, env) ==
    IF <<loc, Empty>> \notin DOMAIN w.files \/ w.files[<<loc, Empty>>] = Failed THEN Failed
    ELSE LET base == Expand(w.files[<<loc, Empty>>], env)
             pa == Profile(w.args, env, base)
         IN  IF pa = None THEN Loaded(ExpandAgain(base, env))
             ELSE IF loc.s \in NoExtension THEN Failed
             ELSE IF <<loc, pa>> \notin DOMAIN w.files THEN Loaded(ExpandAgain(base, env))
             ELSE IF w.files[<<loc, pa>>] = Failed THEN Failed
             ELSE Loaded(ExpandAgain(Merge(base, w.files[<<loc, pa>>]), env))

\* init_xconfig: without a configuration file there is no configuration, no .env,
\* and no error.
InitXConfig(w) ==
    LET loc == Location(w)
    IN  IF loc = None THEN NoConfig
        ELSE IF loc \in DOMAIN w.dotenv /\ w.dotenv[loc] = Failed THEN Failed
        ELSE ParseConfig(w, loc, DotEnv(w, loc))

\* contain_key, for a module's section.
ContainKey(config, m) == config.kind = "loaded" /\ m \in DOMAIN config.content.modules

\* parse_config_list: one instance or a list; a section that cannot be read is
\* taken for an empty one.
ParseConfigList(config, m) ==
    IF ContainKey(config, m) /\ config.content.modules[m].ok
    THEN config.content.modules[m].list ELSE <<>>

\* get_server_name.
ServerName(config) ==
    IF config.kind = "loaded" THEN EnvOr(config.content.server, "Name", Lit("unknown"))
    ELSE Lit("unknown")
=============================================================================
