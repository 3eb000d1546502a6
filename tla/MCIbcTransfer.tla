--------------------------- MODULE MCIbcTransfer ---------------------------
(***************************************************************************)
(* A local token with an alias of one decimal less, and a foreign token.   *)
(***************************************************************************)
EXTENDS IbcTransfer

CONSTANTS a1, a2

Aliases == "xtk" :> "tk"
TokenDecimals == ("tk" :> 2) @@ ("xtk" :> 1) @@ ("atom" :> 1)
Sizes == ("tk" :> {5}) @@ ("xtk" :> {1}) @@ ("atom" :> {1})
AtHome == ("tk" :> 10) @@ ("xtk" :> 0) @@ ("atom" :> 1)
Away == ("tk" :> 0) @@ ("xtk" :> 2) @@ ("atom" :> 2)

Entry(denom, unit, permissions) ==
    [denom |-> denom, unitDenom |-> unit, decimals |-> TokenDecimals[denom], permissions |-> permissions]

Full == {"IBCEXPORT", "IBCIMPORT"}
Token == Entry("tk", "", Full)
Alias == Entry("xtk", "tk", Full)
PlainAlias == Entry("xtk", "", Full)
Atom == Entry("atom", "", Full)
AtomOut == Entry("atom", "", {"IBCEXPORT"})

AllEntries == {Token, Alias, PlainAlias, Atom, AtomOut}
Genesis == <<Token, Alias, Atom>>
SomeRegistries == {<<Alias, PlainAlias, AtomOut, Token>>}
Roles == {<<"ADMIN", a1>>, <<"TOKENREGISTRY", a2>>}
=============================================================================
