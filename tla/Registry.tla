------------------------------ MODULE Registry ------------------------------
(***************************************************************************)
(* The wallets that accounts register for the matcher: swlt of the         *)
(* contract (surprise_wlt) with its table wltpwd, the plugin's route to it *)
(* (create_push_action), and what the matcher reads back for the guard     *)
(* (decrypt_wltpwd, parse_wltpwd).                                         *)
(***************************************************************************)
EXTENDS Cipher, SequencesExt

CONSTANTS
    Accounts,
    Characters,
    Texts,      \* what accounts register: "wallet#password[|wallet#password]"
    MaxCalls    \* bound: calls of swlt

Padding == "!"

Comma == ","

\* The program adds a few characters of its own to the texts.
ASSUME RegistryAssumption ==
    /\ Texts \subseteq Seq(Characters) /\ {Padding, Comma, ":", "|"} \subseteq Characters
    /\ MaxCalls \in Nat

VARIABLES
    wltpwd,     \* the table: rows by account
    calls,      \* ghost: each account's <<route, text>> since its last removal
    count

vars == <<wltpwd, calls, count>>

-----------------------------------------------------------------------------
(* Strings *)

Within(t, s) == \E i \in 0 .. Len(s) - Len(t) : SubSeq(s, i + 1, i + Len(t)) = t

\* boost::split
Split(s, separators) ==
    LET parts[n \in 0 .. Len(s)] ==
            IF n = 0 THEN << <<>> >>
            ELSE LET before == parts[n - 1]
                 IN  IF s[n] \in separators THEN Append(before, <<>>)
                     ELSE [before EXCEPT ![Len(before)] = Append(@, s[n])]
    IN  parts[Len(s)]

\* What follows the account in the arguments, up to the next comma.
encrypt_wltpwd(text) == Scrambled(Pad(Split(text, {Comma})[1], Padding))

\* combine_action_args turns %j into a comma and %l into a colon.
Unescaped(s) ==
    LET read[n \in 0 .. Len(s)] ==
            IF n = 0 THEN <<>>
            ELSE LET before == read[n - 1]
                 IN  IF before # <<>> /\ Last(before) = "%" /\ s[n] \in {"j", "l"}
                     THEN Append(Front(before), IF s[n] = "j" THEN Comma ELSE ":")
                     ELSE Append(before, s[n])
    IN  read[Len(s)]

DecryptedPadded(row) == Unscrambled(row)

\* std::regex_replace of a character by nothing
Erased(s, c) ==
    LET left[n \in 0 .. Len(s)] ==
            IF n = 0 THEN <<>>
            ELSE IF s[n] = c THEN left[n - 1] ELSE Append(left[n - 1], s[n])
    IN  left[Len(s)]

\* The padding is removed wherever it stands.
Decrypted(row) == Erased(Unscrambled(row), Padding)

JoinedByComma(de, s) ==
    IF de = <<>> THEN s ELSE IF Within(s, de) THEN de ELSE de \o <<Comma>> \o s

\* One more account's wallets for the guard, unless they are there already.
Joined(de, s) ==
    IF de = <<>> THEN s ELSE IF Within(s, de) THEN de ELSE de \o <<"|">> \o s

\* What the guard is given for a sequence of accounts.
decrypt_wltpwd(accts) ==
    LET de[n \in 0 .. Len(accts)] ==
            IF n = 0 THEN <<>>
            ELSE LET before == de[n - 1]
                 IN  IF accts[n] \in DOMAIN wltpwd
                     THEN Joined(before, Decrypted(wltpwd[accts[n]])) ELSE before
    IN  de[Len(accts)]

\* The wallets and passwords the guard makes of it; an odd end is ignored.
parse_wltpwd(s) ==
    LET v == Split(s, {"#", "|"})
    IN {<<v[2 * i - 1], v[2 * i]>> : i \in 1 .. Len(v) \div 2}

-----------------------------------------------------------------------------
(* The contract *)

SwltStoresEmpty(a, s) ==
    wltpwd' = [b \in DOMAIN wltpwd \union {a} |-> IF b = a THEN s ELSE wltpwd[b]]

\* surprise_wlt: the empty string removes the row.
Swlt(a, s) ==
    wltpwd' =
        CASE s = <<>> -> [b \in DOMAIN wltpwd \ {a} |-> wltpwd[b]]
          [] s # <<>> /\ a \in DOMAIN wltpwd ->
                [wltpwd EXCEPT ![a] = IF Within(s, @) THEN @ ELSE @ \o <<Comma>> \o s]
          [] OTHER -> [b \in DOMAIN wltpwd \union {a} |-> IF b = a THEN s ELSE wltpwd[b]]

-----------------------------------------------------------------------------
(* The steps *)

Count == count < MaxCalls /\ count' = count + 1

\* Through the plugin: encrypted, then treated as any action's arguments.
RegisterByPlugin(a, text) ==
    /\ Count
    /\ Swlt(a, Unescaped(encrypt_wltpwd(text)))
    /\ calls' = [calls EXCEPT ![a] = Append(@, <<"plugin", text>>)]

\* Straight to the contract, as the tests of the contract do.
RegisterDirectly(a, text) ==
    /\ Count
    /\ Swlt(a, text)
    /\ calls' = [calls EXCEPT ![a] = Append(@, <<"direct", text>>)]

RemoveDirectly(a) ==
    /\ Count
    /\ Swlt(a, <<>>)
    /\ calls' = [calls EXCEPT ![a] = <<>>]

Init ==
    /\ wltpwd = <<>>
    /\ calls = [a \in Accounts |-> <<>>]
    /\ count = 0

Next ==
    \E a \in Accounts :
        \/ \E t \in Texts : RegisterByPlugin(a, t)
        \/ \E t \in Texts : RegisterDirectly(a, t)
        \/ RemoveDirectly(a)

Spec == Init /\ [][Next]_vars

-----------------------------------------------------------------------------
(* Properties *)

\* A text that survives the route: no padding, escape or comma in it.
Plain(t) == \A i \in DOMAIN t : t[i] \notin {Padding, "%", Comma}

\* A text of wallets, each with its password: nothing checks that it is one.
Wallets(t) == Len(Split(t, {"#", "|"})) % 2 = 0

\* An account whose registrations since its last removal all came through the
\* plugin, with one plain text.
Settled(a) == \E t \in Texts : Plain(t) /\ ToSet(calls[a]) = {<<"plugin", t>>}

TextOf(a) == calls[a][1][2]

\* The guard's accounts: the contract's, the seller's and the buyer's.
Tuples == UNION {[1 .. n -> {a \in Accounts : Settled(a)}] : n \in 1 .. 3}

\* The type of the table; no row is empty, for an empty row would be found
\* and appended to where a missing one is created.
TypeOK ==
    /\ DOMAIN wltpwd \subseteq Accounts
    /\ \A a \in DOMAIN wltpwd : wltpwd[a] \in Seq(Characters) \ {<<>>}
    /\ count \in 0 .. MaxCalls

\* What a settled account registered is what the matcher reads, however often
\* it was registered, whatever the length of the text, also when the row had
\* been removed before.
ReadsBack == \A a \in Accounts : Settled(a) => decrypt_wltpwd(<<a>>) = TextOf(a)

\* The guard is never given a wallet with a password nobody registered.
NothingInvented ==
    \A accts \in Tuples :
        parse_wltpwd(decrypt_wltpwd(accts)) \subseteq
            UNION {parse_wltpwd(TextOf(a)) : a \in ToSet(accts)}

\* It is given the wallets of all the accounts, unless what one of them
\* registered contains what another did.
GuardGetsAll ==
    \A accts \in Tuples :
        (\A i, j \in DOMAIN accts : Within(TextOf(accts[i]), TextOf(accts[j])) =>
                                        TextOf(accts[i]) = TextOf(accts[j]))
        => \A a \in ToSet(accts) :
               parse_wltpwd(TextOf(a)) \subseteq parse_wltpwd(decrypt_wltpwd(accts))
=============================================================================
