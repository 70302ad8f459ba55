----------------------------- MODULE MCXStore -----------------------------
(* The worlds a process is started in: how the operator names the file and *)
(* the profile, what the environment, the .env file and the files say.     *)
EXTENDS XStore

dev == Lit("dev")
app == Lit("app.yml")
alt == Lit("alt.yml")
up == Lit("up")

MCArgs == {
    <<>>,
    <<SetTo("profile", dev)>>,
    <<Word(dev), Flag("profile")>>,
    <<Flag("location"), Word(alt), Flag("profile"), Word(Lit("prod"))>>,
    <<Flag("location"), SetTo("profile", dev)>>,
    <<SetTo("location", Empty)>> }

MCOs == {
    [PROFILE |-> Lit("prod"), A |-> Empty],
    [LOCATION |-> alt, PROFILE |-> Empty],
    [LOCATION |-> Lit("raw"), PROFILE |-> dev],
    [A |-> Ref("B", Empty), B |-> Lit("b")] }

MCDotEnvs == {
    [l \in {} |-> Empty],
    (app :> [PROFILE |-> dev, A |-> Lit("a"), LOCATION |-> Lit("none")]),
    (alt :> Failed) }

Inst(name, target) == [name |-> name, target |-> target]
Section(list) == [ok |-> TRUE, list |-> list]
Malformed == [ok |-> FALSE, list |-> <<>>]

BaseOne == [
    server |-> [Name |-> Ref("A", Empty), Active |-> Ref("P", dev)],
    modules |-> [
        XOrm |-> Section(<<Inst(Ref("A", Empty), up), Inst(Lit("x"), Ref("B", Lit("bad")))>>),
        XRedis |-> Section(<<Inst(Lit("r"), up), Inst(Empty, Lit("up2"))>>)]]
BaseTwo == [
    server |-> [Name |-> Lit("svc")],
    modules |-> [
        XOrm |-> Malformed,
        XRedis |-> Section(<<Inst(Lit("r"), Empty), Inst(Lit("q"), Ref("A", up))>>),
        XCache |-> Section(<<Inst(Empty, Lit("1s"))>>)]]
OverDev == [
    server |-> [Name |-> Ref("B", Lit("dev svc")), Active |-> Lit("prod")],
    modules |-> [
        XRedis |-> Section(<<Inst(Lit("r"), Ref("A", Lit("up3"))), Inst(Lit("r"), up)>>)]]
OverProd == [
    server |-> [k \in {} |-> Empty],
    modules |-> [XOrm |-> Section(<<Inst(Lit("x"), up), Inst(Empty, Ref("B", Empty))>>),
                 XCache |-> Section(<<Inst(Lit("s"), Lit("1s")), Inst(Lit("u"), Ref("A", Empty)),
                                      Inst(Lit("s"), Lit("5m"))>>)]]

MCFiles == {
    (<<app, Empty>> :> BaseOne) @@ (<<app, dev>> :> OverDev) @@ (<<alt, Empty>> :> BaseTwo),
    (<<app, Empty>> :> BaseTwo) @@ (<<app, Lit("prod")>> :> OverProd) @@ (<<app, dev>> :> Failed),
    (<<alt, Empty>> :> BaseOne) @@ (<<alt, Lit("prod")>> :> OverProd) @@ (<<Lit("raw"), Empty>> :> BaseTwo),
    (<<alt, Lit("prod")>> :> OverProd),
    (<<app, Empty>> :> Failed) @@ (<<alt, Empty>> :> BaseTwo) }

MCWorlds == [args : MCArgs, os : MCOs, dotenv : MCDotEnvs, files : MCFiles]
MCSearchPaths == <<"app.yml", "raw">>
MCDurations == (Lit("5m") :> 3) @@ (Lit("1s") :> 2)
=============================================================================
