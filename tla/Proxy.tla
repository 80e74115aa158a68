-------------------------------- MODULE Proxy --------------------------------
(***************************************************************************)
(* Calls made for another account (pallet-proxy), calls made together      *)
(* (pallet-utility), and the two nested in each other.  A call that is     *)
(* neither is a leaf: it is recorded as done, or fails when its kind is    *)
(* "failing".                                                              *)
(***************************************************************************)
EXTENDS Calls, Integers, FiniteSets, SequencesExt, TLC

CONSTANTS
    ProxyAccounts,      \* the accounts that sign, sequences of length one
    ProxyExtrinsics,    \* the calls they sign
    RootExtrinsics,     \* the calls root makes
    ProxyFunds,         \* free balance of every account to start with
    ProxyDepositBase, ProxyDepositFactor, AnnouncementDepositBase, AnnouncementDepositFactor,
    MaxProxies, MaxPending,
    NoType,             \* no proxy type is asked for
    MaxProxyBlock,      \* bound on the block number
    MaxExtrinsics       \* bound on the number of extrinsics

VARIABLE proxies

Root == <<"Root">>

Idle == [signer |-> Root, call |-> [kind |-> NoType], done |-> <<>>, held |-> {}]

(* Proxies, Announcements, free and reserved are maps that hold what differs
   from the default.  extrinsic numbers the extrinsics.  last, made, ran and
   spawners are history: the last extrinsic with the calls it carried out and
   the proxies held at some time during it, every announcement made, every
   announced call run, and the accounts that created pure ones. *)
ProxyInitial ==
    {[Proxies |-> <<>>, Announcements |-> <<>>, free |-> <<>>, reserved |-> <<>>,
      safe_mode |-> FALSE, block |-> 1, extrinsic |-> 0,
      last |-> Idle,
      made |-> <<>>, ran |-> <<>>, spawners |-> {}]}

-----------------------------------------------------------------------------
Get(f, a, default) == IF a \in DOMAIN f THEN f[a] ELSE default

Without(f, a) == [x \in DOMAIN f \ {a} |-> f[x]]

reserved_balance(S, a) == Get(S.reserved, a, 0)

free_balance(S, a) == Get(S.free, a, ProxyFunds)

(* Reserves, or with a negative amount unreserves as much as is reserved. *)
can_reserve(S, a, amount) == amount <= free_balance(S, a)

reserve(S, a, amount) ==
    LET moved == IF amount < -reserved_balance(S, a) THEN -reserved_balance(S, a) ELSE amount
    IN  [S EXCEPT !.reserved = (a :> reserved_balance(S, a) + moved) @@ @,
                  !.free = (a :> free_balance(S, a) - moved) @@ @]

Failed(S) == [ok |-> FALSE, state |-> S]

Done(S, o, c) ==
    [ok |-> TRUE,
     state |-> [S EXCEPT !.last.done = Append(@, [who |-> o.who, call |-> c, via |-> o.via])]]

-----------------------------------------------------------------------------
(* pallet-proxy. *)

NoProxies == [defs |-> {}, deposit |-> 0]

ProxiesOf(S, a) == Get(S.Proxies, a, NoProxies)

AnnouncementsOf(S, a) == Get(S.Announcements, a, [pending |-> <<>>, deposit |-> 0])

Held(real, defs) ==
    {[real |-> real, delegate |-> d.delegate, proxy_type |-> d.proxy_type] : d \in defs}

deposit(num_proxies) ==
    IF num_proxies = 0 THEN 0 ELSE ProxyDepositBase + ProxyDepositFactor * num_proxies

TypeRank(t) == CHOOSE i \in DOMAIN ProxyTypes : ProxyTypes[i] = t

(* First definition for the delegate, in the order of type and delay. *)
find_proxy(S, real, delegate, force_proxy_type) ==
    LET found == {d \in ProxiesOf(S, real).defs :
                    /\ d.delegate = delegate
                    /\ force_proxy_type = NoType \/ d.proxy_type = force_proxy_type}
    IN  {d \in found : \A e \in found :
            \/ TypeRank(d.proxy_type) < TypeRank(e.proxy_type)
            \/ d.proxy_type = e.proxy_type /\ d.delay <= e.delay}

\* Mutant: the deposit is not given back.
WithProxies_keeps_deposit(S, who, defs) ==
    LET old == ProxiesOf(S, who).deposit
        new == deposit(Cardinality(defs))
        T == IF new >= old THEN reserve(S, who, new - old) ELSE S
    IN  [T EXCEPT !.Proxies = IF defs = {} THEN Without(@, who)
                              ELSE (who :> [defs |-> defs, deposit |-> new]) @@ @]

(* The definitions and the deposit for them; an empty entry is removed. *)
WithProxies(S, who, defs) ==
    LET old == ProxiesOf(S, who).deposit
        new == deposit(Cardinality(defs))
        T == reserve(S, who, new - old)
    IN  [T EXCEPT !.Proxies = IF defs = {} THEN Without(@, who)
                              ELSE (who :> [defs |-> defs, deposit |-> new]) @@ @,
                  !.last.held = @ \cup Held(who, defs)]

add_proxy_delegate(S, o, c) ==
    LET own == ProxiesOf(S, o.who)
        def == [delegate |-> c.delegate, proxy_type |-> c.proxy_type, delay |-> c.delay]
    IN  IF \/ o.who = c.delegate \/ def \in own.defs
           \/ Cardinality(own.defs) >= MaxProxies
           \/ ~ can_reserve(S, o.who, deposit(Cardinality(own.defs) + 1) - own.deposit)
        THEN Failed(S)
        ELSE Done(WithProxies(S, o.who, own.defs \cup {def}), o, c)

remove_proxy_delegate(S, o, c) ==
    LET def == [delegate |-> c.delegate, proxy_type |-> c.proxy_type, delay |-> c.delay]
    IN  IF def \notin ProxiesOf(S, o.who).defs THEN Failed(S)
        ELSE Done(WithProxies(S, o.who, ProxiesOf(S, o.who).defs \ {def}), o, c)

remove_all_proxy_delegates(S, o, c) ==
    Done([reserve(S, o.who, -ProxiesOf(S, o.who).deposit) EXCEPT !.Proxies = Without(@, o.who)],
         o, c)

(* A hash of its arguments, the block and the extrinsic: a new account. *)
pure_account(who, proxy_type, index, when) == Append(who, <<"pure", proxy_type, index, when>>)

create_pure(S, o, c) ==
    LET pure == pure_account(o.who, c.proxy_type, c.index, S.extrinsic)
        def == [delegate |-> o.who, proxy_type |-> c.proxy_type, delay |-> c.delay]
    IN  IF pure \in DOMAIN S.Proxies \/ ~ can_reserve(S, o.who, deposit(1)) THEN Failed(S)
        ELSE Done([reserve(S, o.who, deposit(1)) EXCEPT
                      !.Proxies = (pure :> [defs |-> {def}, deposit |-> deposit(1)]) @@ @,
                      !.last.held = @ \cup Held(pure, {def}),
                      !.spawners = @ \cup {o.who}], o, c)

kill_pure(S, o, c) ==
    IF o.who # pure_account(c.spawner, c.proxy_type, c.index, c.when) THEN Failed(S)
    ELSE Done([reserve(S, c.spawner, -ProxiesOf(S, o.who).deposit) EXCEPT
                  !.Proxies = Without(@, o.who)], o, c)

(* The pending announcements and the deposit for them. *)
rejig_deposit(S, who, pending) ==
    LET new == IF pending = <<>> THEN 0
               ELSE AnnouncementDepositBase + AnnouncementDepositFactor * Len(pending)
        T == reserve(S, who, new - AnnouncementsOf(S, who).deposit)
    IN  [T EXCEPT !.Announcements = IF pending = <<>> THEN Without(@, who)
                                    ELSE (who :> [pending |-> pending, deposit |-> new]) @@ @]

announce(S, o, c) ==
    LET own == AnnouncementsOf(S, o.who)
        pending == Append(own.pending, [real |-> c.real, call |-> c.call, height |-> S.block])
    IN  IF \/ \A d \in ProxiesOf(S, c.real).defs : d.delegate # o.who
           \/ Len(own.pending) >= MaxPending
           \/ ~ can_reserve(S, o.who, AnnouncementDepositBase
                                + AnnouncementDepositFactor * Len(pending) - own.deposit)
        THEN Failed(S)
        ELSE Done([rejig_deposit(S, o.who, pending) EXCEPT
                      !.made = Append(@, [delegate |-> o.who, real |-> c.real, call |-> c.call,
                                          height |-> S.block])], o, c)

(* The announcements of a delegate that name an account and a call. *)
Announced(S, delegate, real, call) ==
    {a \in ToSet(AnnouncementsOf(S, delegate).pending) : a.real = real /\ a.call = call}

(* The announcements in gone are the ones the caller's filter turns down.  An
   empty result, when there are none: NotFound. *)
edit_announcements(S, delegate, gone) ==
    LET old == AnnouncementsOf(S, delegate).pending
        pending == SelectSeq(old, LAMBDA a : a \notin gone)
    IN  IF Len(pending) = Len(old) THEN {} ELSE {rejig_deposit(S, delegate, pending)}

remove_announcement(S, o, c) ==
    LET T == edit_announcements(S, o.who, Announced(S, o.who, c.real, c.call))
    IN  IF T = {} THEN Failed(S) ELSE Done(CHOOSE t \in T : TRUE, o, c)

reject_announcement(S, o, c) ==
    LET T == edit_announcements(S, c.delegate, Announced(S, c.delegate, o.who, c.call))
    IN  IF T = {} THEN Failed(S) ELSE Done(CHOOSE t \in T : TRUE, o, c)

-----------------------------------------------------------------------------
(* Origins.  via holds the proxy types whose filters the origin carries;
   nested tells that a batch_all is not allowed any more. *)

Signed(who) == [who |-> who, via |-> {}, nested |-> FALSE]

(* The filter that do_proxy adds to the origin of the account acted for. *)
ProxyFilter(proxy_type, c) ==
    IF c.kind \in {"add_proxy", "remove_proxy"} /\ ~ is_superset(proxy_type, c.proxy_type)
    THEN FALSE
    ELSE IF c.kind \in {"remove_proxies", "kill_pure"} /\ proxy_type # "Any"
    THEN FALSE
    ELSE filter(proxy_type, c)

Allowed(S, o, c) ==
    /\ BaseCallFilter(S.safe_mode, c)
    /\ \A t \in o.via : ProxyFilter(t, c)
    /\ o.nested => c.kind # "batch_all"

derivative_account_id(who, index) == Append(who, <<"sub", NoType, index, 0>>)

RECURSIVE dispatch_bypass_filter(_, _, _)

(* A failing call changes nothing. *)
dispatch(S, o, c) == IF Allowed(S, o, c) THEN dispatch_bypass_filter(S, o, c) ELSE Failed(S)

do_proxy(S, def, real, c) ==
    [ok |-> TRUE,
     state |-> dispatch(S, [who |-> real, via |-> {def.proxy_type}, nested |-> FALSE], c).state]

proxy(S, o, c) ==
    LET def == find_proxy(S, c.real, o.who, c.force_proxy_type)
    IN  IF \E d \in def : d.delay = 0
        THEN do_proxy(S, CHOOSE d \in def : TRUE, c.real, c.call)
        ELSE Failed(S)

\* Mutant: a matured announcement stays after its call.
proxy_announced_keeps(S, o, c) ==
    LET defs == find_proxy(S, c.real, c.delegate, c.force_proxy_type)
        def == CHOOSE d \in defs : TRUE
        T == edit_announcements(S, c.delegate,
                {a \in Announced(S, c.delegate, c.real, c.call) : S.block - a.height >= def.delay})
    IN  IF defs = {} THEN Failed(S) ELSE IF T = {} THEN Failed(S)
        ELSE do_proxy([S EXCEPT
                          !.ran = Append(@, [delegate |-> c.delegate, real |-> c.real,
                                             call |-> c.call, delay |-> def.delay,
                                             at |-> S.block, extrinsic |-> S.extrinsic])], def, c.real, c.call)

(* Anyone may trigger it once the announcement is old enough. *)
proxy_announced(S, o, c) ==
    LET defs == find_proxy(S, c.real, c.delegate, c.force_proxy_type)
        def == CHOOSE d \in defs : TRUE
        T == edit_announcements(S, c.delegate,
                {a \in Announced(S, c.delegate, c.real, c.call) : S.block - a.height >= def.delay})
    IN  IF defs = {} THEN Failed(S) ELSE IF T = {} THEN Failed(S)
        ELSE do_proxy([(CHOOSE t \in T : TRUE) EXCEPT
                          !.ran = Append(@, [delegate |-> c.delegate, real |-> c.real,
                                             call |-> c.call, delay |-> def.delay,
                                             at |-> S.block, extrinsic |-> S.extrinsic])], def, c.real, c.call)

-----------------------------------------------------------------------------
(* pallet-utility. *)

\* Mutant: the calls of a batch run with the plain origin of the signer.
DispatchItem_unfiltered(S, o, c) == dispatch(S, Signed(o.who), c)

(* Root is not filtered. *)
DispatchItem(S, o, c) ==
    IF o.who = Root THEN dispatch_bypass_filter(S, o, c) ELSE dispatch(S, o, c)

UntilFailure(S, o, calls) ==
    FoldLeft(LAMBDA r, c : IF r.ok THEN DispatchItem(r.state, o, c) ELSE r,
             [ok |-> TRUE, state |-> S], calls)

(* The first failing call ends the batch; what came before stays. *)
batch(S, o, calls) == [ok |-> TRUE, state |-> UntilFailure(S, o, calls).state]

\* Mutant: a failing call does not undo the calls before it.
batch_all_partial(S, o, calls) ==
    [ok |-> TRUE, state |-> UntilFailure(S, [o EXCEPT !.nested = TRUE], calls).state]

(* The first failing call undoes the whole batch. *)
batch_all(S, o, calls) ==
    LET r == UntilFailure(S, [o EXCEPT !.nested = TRUE], calls)
    IN  IF r.ok THEN r ELSE Failed(S)

(* Failing calls are passed over. *)
force_batch(S, o, calls) ==
    FoldLeft(LAMBDA r, c : [ok |-> TRUE, state |-> DispatchItem(r.state, o, c).state],
             [ok |-> TRUE, state |-> S], calls)

(* The filters of the origin stay. *)
as_derivative(S, o, c) ==
    dispatch(S, [o EXCEPT !.who = derivative_account_id(o.who, c.index)], c.call)

dispatch_as(S, o, c) ==
    IF o.who # Root THEN Failed(S)
    ELSE [ok |-> TRUE, state |-> dispatch_bypass_filter(S, Signed(c.as_origin), c.call).state]

with_weight(S, o, c) ==
    IF o.who # Root THEN Failed(S) ELSE dispatch_bypass_filter(S, Signed(Root), c.call)

SignedCalls ==
    {"add_proxy", "remove_proxy", "remove_proxies", "create_pure", "kill_pure", "announce",
     "remove_announcement", "reject_announcement", "proxy", "proxy_announced", "as_derivative"}

dispatch_bypass_filter(S, o, c) ==
    CASE c.kind \in SignedCalls /\ o.who = Root -> Failed(S)   \* ensure_signed
      [] c.kind = "add_proxy" -> add_proxy_delegate(S, o, c)
      [] c.kind = "remove_proxy" -> remove_proxy_delegate(S, o, c)
      [] c.kind = "remove_proxies" -> remove_all_proxy_delegates(S, o, c)
      [] c.kind = "create_pure" -> create_pure(S, o, c)
      [] c.kind = "kill_pure" -> kill_pure(S, o, c)
      [] c.kind = "announce" -> announce(S, o, c)
      [] c.kind = "remove_announcement" -> remove_announcement(S, o, c)
      [] c.kind = "reject_announcement" -> reject_announcement(S, o, c)
      [] c.kind = "proxy" -> proxy(S, o, c)
      [] c.kind = "proxy_announced" -> proxy_announced(S, o, c)
      [] c.kind = "batch" -> batch(S, o, c.calls)
      [] c.kind = "batch_all" -> batch_all(S, o, c.calls)
      [] c.kind = "force_batch" -> force_batch(S, o, c.calls)
      [] c.kind = "as_derivative" -> as_derivative(S, o, c)
      [] c.kind = "dispatch_as" -> dispatch_as(S, o, c)
      [] c.kind = "with_weight" -> with_weight(S, o, c)
      [] c.kind = "failing" -> Failed(S)
      [] OTHER -> Done(S, o, c)

-----------------------------------------------------------------------------
Begin(signer, c) ==
    [proxies EXCEPT !.extrinsic = @ + 1,
                    !.last = [signer |-> signer, call |-> c, done |-> <<>>,
                              held |-> UNION {Held(a, proxies.Proxies[a].defs) :
                                                  a \in DOMAIN proxies.Proxies}]]

Extrinsic(signer, c) ==
    /\ proxies.extrinsic < MaxExtrinsics
    /\ \E r \in {dispatch(Begin(signer, c), Signed(signer), c)} :
          /\ r.ok
          /\ proxies' = r.state

(* Sudo dispatches with the root origin, past every filter. *)
RootExtrinsic(c) ==
    /\ proxies.extrinsic < MaxExtrinsics
    /\ \E r \in {dispatch_bypass_filter(Begin(Root, c), Signed(Root), c)} :
          /\ r.ok
          /\ proxies' = r.state

(* Root enters or leaves safe mode (pallet-safe-mode). *)
SetSafeMode ==
    /\ proxies.extrinsic < MaxExtrinsics
    /\ proxies' = [proxies EXCEPT !.safe_mode = ~ @, !.extrinsic = @ + 1, !.last = Idle]

NextProxyBlock ==
    /\ proxies.block < MaxProxyBlock
    /\ proxies' = [proxies EXCEPT !.block = @ + 1, !.last = Idle]

ProxyNext ==
    \/ \E signer \in ProxyAccounts, c \in ProxyExtrinsics : Extrinsic(signer, c)
    \/ \E c \in RootExtrinsics : RootExtrinsic(c)
    \/ SetSafeMode
    \/ NextProxyBlock

ProxySpec == proxies \in ProxyInitial /\ [][ProxyNext]_proxies

-----------------------------------------------------------------------------
(* The account and those it is a pseudonym of. *)
Owners(w) ==
    {SubSeq(w, 1, i) : i \in {j \in DOMAIN w : \A k \in j + 1 .. Len(w) : w[k][1] = "sub"}}

(* Account s may make call c as w: its own pseudonym, or over at most n proxies
   of which each lets through what the next one is asked to do. *)
RECURSIVE MayAct(_, _, _, _)
MayAct(s, w, c, n) ==
    \/ s \in Owners(w)
    \/ /\ n > 0
       /\ \E d \in proxies.last.held :
             /\ d.real \in Owners(w)
             /\ ProxyFilter(d.proxy_type, c)
             /\ MayAct(s, d.delegate, [kind |-> "proxy"], n - 1)

(* An extrinsic does as another account only what a proxy type held over that
   account lets through, however batches, pseudonyms and proxy calls are
   nested: the filter travels with the origin (do_proxy, batch, as_derivative).
   Calls run by proxy_announced are the announcer's. *)
OnlyWhatProxiesAllow ==
    LET signers == {proxies.last.signer} \cup
                   {r.delegate : r \in {x \in ToSet(proxies.ran) : x.extrinsic = proxies.extrinsic}}
    IN  proxies.last.signer # Root =>
            \A e \in ToSet(proxies.last.done) :
                \E s \in signers : MayAct(s, e.who, e.call, Cardinality(proxies.last.held))

(* A call behind a delay runs at most once for each time it was announced, and
   only when one of its announcements is as old as the delay (announce,
   proxy_announced, edit_announcements). *)
AnnouncedCallsWaitAndRunOnce ==
    LET Same(x, y) == x.delegate = y.delegate /\ x.real = y.real /\ x.call = y.call
    IN  \A r \in ToSet(proxies.ran) :
            /\ \E m \in ToSet(proxies.made) : Same(m, r) /\ m.height + r.delay <= r.at
            /\ Cardinality({i \in DOMAIN proxies.ran : Same(proxies.ran[i], r)})
                  <= Cardinality({i \in DOMAIN proxies.made : Same(proxies.made[i], r)})

(* An account that created no pure account has reserved exactly the deposits of
   its proxies and announcements, through every rollback (add_proxy_delegate,
   remove_proxy_delegate, remove_all_proxy_delegates, rejig_deposit). *)
ProxyDepositsAreReserved ==
    \A a \in ProxyAccounts \ proxies.spawners :
        reserved_balance(proxies, a) =
            ProxiesOf(proxies, a).deposit + AnnouncementsOf(proxies, a).deposit

(* The calls of a batch_all are carried out all or none, also when the proxied
   call or the batch around it swallows the failure (batch_all, do_proxy). *)
BatchAllIsAtomic ==
    LET c == proxies.last.call
        all == IF c.kind = "batch_all" THEN c.calls
               ELSE IF c.kind = "proxy" /\ c.call.kind = "batch_all" THEN c.call.calls
               ELSE <<>>
        flat == \A i \in DOMAIN all : "call" \notin DOMAIN all[i] \/ all[i].kind = "announce"
    IN  flat => Len(proxies.last.done) \in {0, Len(all)} \/ all = <<>>
=============================================================================
