------------------------------ MODULE TokenPanel ------------------------------
(***************************************************************************)
(* The ingest tokens of a Channel on its Settings tab: minting one, whose  *)
(* secret is shown once, and revoking one behind a confirmation, with the  *)
(* list read from the query cache that polls and mutations refetch, while  *)
(* another operator mints and revokes too and the panel moves to another   *)
(* Channel.                                                                *)
(***************************************************************************)
EXTENDS Integers

CONSTANTS
    Channels,
    Home,         \* the Channel shown first
    First,        \* the tokens it may have already
    Tokens,       \* every token that is ever minted
    None,
    MaxUpsets     \* bound on the requests that fail and the moves to another Channel

\* A mint under way.
Mints == [at : {"sent", "served", "refetching"}, channel : Channels, token : Tokens \cup {None}]

TokenAssumption ==
    /\ Home \in Channels /\ First \subseteq Tokens /\ None \notin Tokens \cup Mints
    /\ MaxUpsets \in Nat

VARIABLES
    stored,       \* stored[c]: the rows of channel_tokens
    fresh,        \* the tokens not minted yet
    list,         \* list[c]: the query cache's tokens of c, or None
    loadError,    \* loadError[c]: the last fetch of c failed
    fetch,        \* fetch[c]: None, or the fetch of c under way and what it has read
    channelId,    \* the Channel the panel shows
    minted,       \* mintedToken
    confirming,   \* confirmingRevokeId
    mint,         \* the mint under way
    revoke,       \* the revocation under way, with mintedToken as it was at the press
    withdrawn,    \* history: tokens revoked here while their secret was on show
    upsets

panel == <<channelId, minted, confirming, mint, revoke, withdrawn>>
vars == <<stored, fresh, list, loadError, fetch, panel, upsets>>

Unread == [read |-> None]

\* The token's row, or the confirmation in its place, is on the screen.
Listed(t) == list[channelId] # None /\ t \in list[channelId]

Init ==
    /\ stored \in {[c \in Channels |-> IF c = Home THEN ts ELSE {}] : ts \in {{}, First}}
    /\ fresh = Tokens \ UNION {stored[c] : c \in Channels}
    /\ list = [c \in Channels |-> None] /\ loadError = [c \in Channels |-> FALSE]
    /\ fetch = [c \in Channels |-> None]
    /\ channelId = Home
    /\ minted = None /\ confirming = None /\ mint = None /\ revoke = None
    /\ withdrawn = {} /\ upsets = 0
-----------------------------------------------------------------------------
(* The query cache.                                                        *)

Poll ==
    /\ fetch[channelId] = None
    /\ fetch' = [fetch EXCEPT ![channelId] = Unread]
    /\ UNCHANGED <<stored, fresh, list, loadError, panel, upsets>>

FetchReads(c) ==
    /\ fetch[c] = Unread
    /\ fetch' = [fetch EXCEPT ![c] = [read |-> stored[c]]]
    /\ UNCHANGED <<stored, fresh, list, loadError, panel, upsets>>

\* A mutation's refetch has been awaited once it settles, well or badly.
Awaited(call, c) == IF call # None /\ call.at = "refetching" /\ call.channel = c THEN None ELSE call

FetchSettles(c) ==
    /\ fetch[c] # None /\ fetch' = [fetch EXCEPT ![c] = None]
    /\ \/ /\ fetch[c].read # None
          /\ list' = [list EXCEPT ![c] = fetch[c].read]
          /\ loadError' = [loadError EXCEPT ![c] = FALSE] /\ UNCHANGED upsets
       \/ /\ upsets < MaxUpsets /\ upsets' = upsets + 1
          /\ loadError' = [loadError EXCEPT ![c] = TRUE] /\ UNCHANGED list
    /\ mint' = Awaited(mint, c) /\ revoke' = Awaited(revoke, c)
    /\ UNCHANGED <<stored, fresh, channelId, minted, confirming, withdrawn>>

\* Mutant: a fetch already under way answers for the refetch.
Invalidates_Joins(c) ==
    fetch' = IF fetch[c] = None /\ c = channelId THEN [fetch EXCEPT ![c] = Unread] ELSE fetch

\* `invalidateQueries`: a fetch under way is cancelled for a new one; the
\* entry of a Channel no longer shown is only marked stale.
Invalidates(c) ==
    fetch' = IF c = channelId THEN [fetch EXCEPT ![c] = Unread] ELSE fetch

\* What is left to await of a mutation of c once it has been answered.
Refetching(call) == IF call.channel = channelId THEN [call EXCEPT !.at = "refetching"] ELSE None
-----------------------------------------------------------------------------
(* The panel, and the requests it waits for.                               *)

\* The effect on [channelId].
MoveTo(c) ==
    /\ c # channelId /\ upsets < MaxUpsets /\ upsets' = upsets + 1
    /\ channelId' = c /\ minted' = None /\ confirming' = None
    /\ UNCHANGED <<stored, fresh, list, loadError, fetch, mint, revoke, withdrawn>>

PressMint ==
    /\ mint = None
    /\ mint' = [at |-> "sent", channel |-> channelId, token |-> None]
    /\ UNCHANGED <<stored, fresh, list, loadError, fetch, channelId, minted, confirming, revoke, withdrawn, upsets>>

MintServed(t) ==
    /\ mint # None /\ mint.at = "sent" /\ t \in fresh
    /\ stored' = [stored EXCEPT ![mint.channel] = @ \cup {t}]
    /\ fresh' = fresh \ {t}
    /\ mint' = [mint EXCEPT !.at = "served", !.token = t]
    /\ UNCHANGED <<list, loadError, fetch, channelId, minted, confirming, revoke, withdrawn, upsets>>

MintAnswered ==
    /\ mint # None /\ mint.at = "served"
    /\ minted' = mint.token
    /\ mint' = Refetching(mint)
    /\ Invalidates(mint.channel)
    /\ UNCHANGED <<stored, fresh, list, loadError, channelId, confirming, revoke, withdrawn, upsets>>

MintFails ==
    /\ mint # None /\ mint.at \in {"sent", "served"}
    /\ upsets < MaxUpsets /\ upsets' = upsets + 1
    /\ mint' = None
    /\ UNCHANGED <<stored, fresh, list, loadError, fetch, channelId, minted, confirming, revoke, withdrawn>>

OpenRevoke(t) ==
    /\ Listed(t) /\ confirming # t
    /\ confirming' = t
    /\ UNCHANGED <<stored, fresh, list, loadError, fetch, channelId, minted, mint, revoke, withdrawn, upsets>>

\* Cancel, or Escape while the revocation is under way.
CancelRevoke ==
    /\ confirming # None /\ Listed(confirming)
    /\ confirming' = None
    /\ UNCHANGED <<stored, fresh, list, loadError, fetch, channelId, minted, mint, revoke, withdrawn, upsets>>

ConfirmRevoke ==
    /\ confirming # None /\ Listed(confirming) /\ revoke = None
    /\ revoke' = [at |-> "sent", channel |-> channelId, token |-> confirming, shown |-> minted]
    /\ UNCHANGED <<stored, fresh, list, loadError, fetch, channelId, minted, confirming, mint, withdrawn, upsets>>

\* DELETE: 204, or 404 for a token that is gone already.
RevokeServed ==
    /\ revoke # None /\ revoke.at = "sent"
    /\ revoke' = [revoke EXCEPT !.at = IF revoke.token \in stored[revoke.channel] THEN "served" ELSE "refused"]
    /\ stored' = [stored EXCEPT ![revoke.channel] = @ \ {revoke.token}]
    /\ UNCHANGED <<fresh, list, loadError, fetch, channelId, minted, confirming, mint, withdrawn, upsets>>

\* Mutant: the secret stays after its token's revocation.
HidesSecret_Never == FALSE

\* The handler compares with the secret shown when it was pressed.
HidesSecret == revoke.shown = revoke.token

RevokeAnswered ==
    /\ revoke # None /\ revoke.at = "served"
    /\ minted' = IF HidesSecret THEN None ELSE minted
    /\ withdrawn' = IF revoke.shown = revoke.token THEN withdrawn \cup {revoke.token} ELSE withdrawn
    /\ confirming' = None
    /\ revoke' = Refetching(revoke)
    /\ Invalidates(revoke.channel)
    /\ UNCHANGED <<stored, fresh, list, loadError, channelId, mint, upsets>>

RevokeFails ==
    /\ revoke # None /\ revoke.at \in {"sent", "served", "refused"}
    /\ revoke.at # "refused" => upsets < MaxUpsets
    /\ upsets' = IF revoke.at = "refused" THEN upsets ELSE upsets + 1
    /\ revoke' = None
    /\ UNCHANGED <<stored, fresh, list, loadError, fetch, channelId, minted, confirming, mint, withdrawn>>

\* Another operator revokes a token.
OthersRevoke(c, t) ==
    /\ t \in stored[c]
    /\ stored' = [stored EXCEPT ![c] = @ \ {t}]
    /\ UNCHANGED <<fresh, list, loadError, fetch, panel, upsets>>

Next ==
    \/ Poll \/ \E c \in Channels : FetchReads(c) \/ FetchSettles(c) \/ MoveTo(c)
    \/ PressMint \/ (\E t \in Tokens : MintServed(t)) \/ MintAnswered \/ MintFails
    \/ (\E t \in Tokens : OpenRevoke(t)) \/ CancelRevoke \/ ConfirmRevoke
    \/ RevokeServed \/ RevokeAnswered \/ RevokeFails
    \/ \E c \in Channels, t \in Tokens : OthersRevoke(c, t)

Spec == Init /\ [][Next]_vars
-----------------------------------------------------------------------------
(* Properties.                                                             *)

Fetches == {None, Unread} \cup [read : SUBSET Tokens]

TypeOK ==
    /\ stored \in [Channels -> SUBSET Tokens] /\ fresh \subseteq Tokens
    /\ list \in [Channels -> {None} \cup SUBSET Tokens]
    /\ loadError \in [Channels -> BOOLEAN] /\ fetch \in [Channels -> Fetches]
    /\ channelId \in Channels /\ {minted, confirming} \subseteq Tokens \cup {None}
    /\ \A call \in {mint, revoke} :
          call # None => call.channel \in Channels /\ call.token \in Tokens \cup {None}
    /\ upsets \in 0..MaxUpsets

\* The secret of a token revoked here while it was on show is not shown again,
\* whatever is minted, answered late or moved away from meanwhile.
RevokedSecretIsGone == minted \notin withdrawn

\* Once a mint is over, the token whose secret is on show can be revoked: it
\* is in the list of its Channel, unless it has been revoked or the list could
\* not be refetched. A poll that read the list before the mint does not take
\* its place.
SecretIsListed ==
    minted # None /\ minted \in stored[channelId] /\ mint = None /\ ~loadError[channelId]
    => Listed(minted)
=============================================================================
