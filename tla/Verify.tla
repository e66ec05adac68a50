------------------------------- MODULE Verify -------------------------------
(* The server's verification of one client over the key exchanges of a       *)
(* connection and over reconnects: the certificate callback, user name and   *)
(* password by management, plugin and script (immediate or deferred through   *)
(* control files), auth-token generation and verification, locked names, and  *)
(* the final checks (ssl_verify.c, auth_token.c, key_method_2_read of ssl.c). *)
(* A password is "pw" or a token the server sent to the client.               *)
EXTENDS Naturals, FiniteSets

CONSTANTS
    Configs,         \* the server's configurations, with the certificates and user names its clients
                     \* give, the key exchanges and the seconds observed (bounds)
    Certs,           \* certificates: [name, cn, trusted, usage, revoked]
    CacheIntervals,  \* cache_intervals: seconds a verdict is cached, by number of updates
    HandWindow,      \* --hand-window
    HalfReneg,       \* half of --reneg-sec
    Renewal,         \* --auth-gen-token's renewal time
    Lifetime         \* --auth-gen-token's lifetime

VARIABLES
    cfg,
    multi,     \* struct tls_multi: locked names, tokens, connection state, status cache
    keys,      \* KS_PRIMARY and KS_LAME_DUCK of the active session
    session,   \* session->common_name and session->cert_hash_set
    files,     \* control files on disk: <<key id, method, kind>>
    answers,   \* what back ends wrote into control files: <<key id, method, ok>>
    now,
    ctoken,    \* the client: the last token it was sent
    approved,  \* history: <<key id, method>> that some back end has accepted
    logins,    \* history: <<user, session id>> for which the methods accepted a login
    nkeys      \* key ids used

vars == <<cfg, multi, keys, session, files, answers, now, ctoken, approved, logins, nkeys>>

NoKey == [id |-> 0]
Nobody == "none"
EmptyUser == ""   \* the name of a client that gives none (--auth-user-pass-optional)
NoToken == [user |-> Nobody, sid |-> 0, t0 |-> 0, t |-> 0]
Start == 10   \* the clock of a machine is not near 0
KeySlots == {"pri", "lame"}
FileMethods == {"plugin", "script"}
Methods == {m \in {"man", "plugin", "script"} : cfg[m]}
Least(a, b) == IF a <= b THEN a ELSE b
Greatest(a, b) == IF a >= b THEN a ELSE b

-----------------------------------------------------------------------------
(* Certificates *)

\* --verify-hash and --peer-fingerprint.
HashOk(c) == cfg.hashes # {} => c.name \in cfg.hashes

\* --remote-cert-tls and --verify-x509-name: whether key usage and names of a certificate suit.
verify_peer_cert(c) == c.usage

\* --tls-verify: the certificates its plugin or script refuses.
verify_cert_call_command(c) == c.name \notin cfg.refuses

\* --crl-verify with a directory of revoked serial numbers.
verify_check_crl_dir(c) == ~c.revoked

\* verify_cert() for the peer's certificate.
verify_cert(c) ==
    /\ HashOk(c)
    /\ verify_peer_cert(c)
    /\ verify_cert_call_command(c)
    /\ cfg.crl = "dir" => verify_check_crl_dir(c)
    /\ cfg.crl # "missing"

\* What the TLS library finds wrong with the chain, or with its look-up in the CRL file; "other"
\* is a file without a list of the certificate's issuer.
LibraryError(c) ==
    CASE ~c.trusted                    -> "chain"
      [] cfg.crl = "file" /\ c.revoked -> "revoked"
      [] cfg.crl = "other"             -> "unable to get crl"
      [] OTHER                         -> "ok"

\* A missing list is logged and ignored; --peer-fingerprint without --ca ignores every error of
\* the library, a revoked certificate too.
verify_callback(c) ==
    /\ cfg.no_ca \/ LibraryError(c) \in {"ok", "unable to get crl"}
    /\ verify_cert(c)

-----------------------------------------------------------------------------
(* Tokens *)

Token(user, init, sid) ==
    IF init # NoToken THEN [user |-> user, sid |-> init.sid, t0 |-> init.t0, t |-> now]
                      ELSE [user |-> user, sid |-> sid, t0 |-> now, t |-> now]

\* A token keeps the session id and the first timestamp of the initial one; after a token that
\* was good for the empty user only, it is made for the empty user again.
generate_auth_token(mu, k, user) ==
    LET tok == Token(IF "emptyuser" \in k.flags THEN EmptyUser ELSE user, mu.initial, nkeys) IN
    [mu EXCEPT !.token = tok, !.initial = IF @ = NoToken THEN tok ELSE @]

wipe_auth_token(mu) == [mu EXCEPT !.token = NoToken, !.initial = NoToken]

\* Mutant: a renewed token is accepted for as long as it is renewed.
Expired_NoLifetime(tok) == ~(now >= tok.t /\ now < tok.t + 2 * Renewal)

\* Mutant: a token is good for its lifetime, however old.
Expired_NoWindow(tok) == tok.t < tok.t0 \/ (Lifetime # 0 /\ now > tok.t0 + Lifetime)

Expired(tok) ==
    \/ ~(now >= tok.t /\ now < tok.t + 2 * Renewal)
    \/ tok.t < tok.t0
    \/ Lifetime # 0 /\ now > tok.t0 + Lifetime

\* auth_token_state_flags: none for a token whose HMAC or session id does not fit.
verify_auth_token(mu, user, tok) ==
    IF tok.user \notin {user, EmptyUser} \/ (mu.initial # NoToken /\ mu.initial.sid # tok.sid) THEN {}
    ELSE {"hmac_ok"} \cup (IF tok.user # user THEN {"emptyuser"} ELSE {})
                     \cup (IF Expired(tok) THEN {"expired"} ELSE {})

\* A token made for the empty user takes the name away from a client that gives one.
TokenUser(user, tok) == IF tok # NoToken /\ tok.user = EmptyUser THEN EmptyUser ELSE user

-----------------------------------------------------------------------------
(* Files of deferred authentication *)

Kinds == {"control", "pending"}
FilesOf(id) == {f \in files : f[1] = id}

\* What is left of a method's files when it returns: a deferral keeps the control file only.
FilesAfter(fs, id, m, ret) ==
    IF ret \in {"deferred", "auth pending"} THEN fs \cup {<<id, m, "control">>} ELSE fs \ {<<id, m, k>> : k \in Kinds}

\* send_auth_pending_messages(): the deferral lasts longer, within a limit.
MaxTimeout(k) == Greatest(HalfReneg, HandWindow) - (now - k.initial)
send_auth_pending_messages(k, timeout) ==
    [k EXCEPT !.expire = now + IF now - k.initial > Greatest(HalfReneg, HandWindow)
                                 THEN timeout    \* the unsigned subtraction wraps
                                 ELSE Least(MaxTimeout(k), timeout)]

-----------------------------------------------------------------------------
(* User name and password *)

\* Mutant: the locked name is not compared.
tls_lock_username_Any(mu, user) == TRUE

tls_lock_username(mu, user) == mu.user \in {Nobody, user} \/ mu.orig = user

\* tls_deauthenticate(): every key of the tunnel is marked.
tls_deauthenticate(ks) ==
    [s \in KeySlots |-> IF ks[s] = NoKey THEN NoKey ELSE [ks[s] EXCEPT !.auth = "false"]]

\* What a plugin or a script returns; "no" when it is not asked.
Returns(m, asked) ==
    IF cfg[m] /\ asked THEN {"success", "deferred", "auth pending", "error"} ELSE {"no"}
Ok(ret) == ret \in {"no", "success", "deferred", "auth pending"}
Deferred(ret) == ret \in {"deferred", "auth pending"}

\* ks->authenticated when every method that has answered accepts.
Verdict(p, s, man) == IF Deferred(p) \/ Deferred(s) \/ man THEN "deferred" ELSE "true"

\* The key once its methods have been called. A new key expects an answer by management
\* (mda_status is ACF_PENDING) until an accepted token disables it.
Called(k, user, flags, p, s, skip) ==
    LET asked == [k EXCEPT !.state = "got", !.user = user, !.flags = flags, !.via = IF skip THEN "token" ELSE "methods",
                           !.plugin = IF Deferred(p) THEN "pending" ELSE "disabled",
                           !.script = IF Deferred(s) THEN "pending" ELSE "disabled",
                           !.man = IF skip \/ ~cfg.man THEN "disabled" ELSE @] IN
    IF "auth pending" \in {p, s} THEN send_auth_pending_messages(asked, HandWindow + HalfReneg) ELSE asked

\* verify_final_auth_checks(): "ok", or which check fails.
verify_final_auth_checks(mu, k, cn) ==
    IF (mu.cn # Nobody /\ cn # mu.cn) \/ (mu.hash # Nobody /\ k.cert # mu.hash) THEN "tunnel"
    ELSE IF cfg.ccd /\ cn \notin cfg.ccdfiles THEN "key"
    ELSE "ok"

\* An accepted user name: the tokens, the names and the final checks. final is the veto of a
\* TLS_FINAL plugin.
Accepted(mu0, k, user, tok, flags, final) ==
    LET named == IF mu0.user = Nobody /\ Methods # {} THEN [mu0 EXCEPT !.user = user] ELSE mu0
        kept  == IF cfg.token # "no" /\ named.token = NoToken
                       /\ "hmac_ok" \in flags /\ "expired" \notin flags
                   THEN [named EXCEPT !.token = tok] ELSE named
        mu    == IF cfg.token # "no" /\ Methods # {} THEN generate_auth_token(kept, k, user) ELSE kept
        cn    == IF cfg.as_cn THEN user ELSE session.cn
        check == verify_final_auth_checks(mu, k, cn)
    IN CASE check = "tunnel" ->
              /\ multi' = wipe_auth_token(mu)
              /\ keys' = tls_deauthenticate([keys EXCEPT !.pri = k])
              /\ session' = [session EXCEPT !.cn = IF mu.cn # Nobody THEN mu.cn ELSE cn]
         [] check = "key" ->
              /\ multi' = wipe_auth_token(mu)
              /\ keys' = [keys EXCEPT !.pri = [k EXCEPT !.auth = "false"]]
              /\ session' = [session EXCEPT !.cn = cn]
         [] check = "ok" ->
              /\ multi' = mu
              /\ keys' = [keys EXCEPT !.pri = IF final THEN k ELSE [k EXCEPT !.auth = "false"]]
              /\ session' = [session EXCEPT !.cn = cn]

Refused(mu, ks) == multi' = mu /\ keys' = ks /\ UNCHANGED session

\* verify_user_pass() for a name and a password or token; p and s are what plugin and script return.
verify_user_pass(user, tok, p, s, skip, flags, final) ==
    LET k     == Called(keys.pri, user, flags, p, s, skip)
        first == IF tok # NoToken /\ cfg.token # "no" /\ multi.initial = NoToken
                   THEN [multi EXCEPT !.initial = tok] ELSE multi
        mu    == IF cfg.token # "no" /\ first.initial = NoToken THEN generate_auth_token(first, k, user) ELSE first
    IN IF Methods = {}
         THEN Accepted(multi, [k EXCEPT !.auth = "true", !.user = Nobody], Nobody, NoToken, {}, final)
       ELSE IF tok # NoToken /\ cfg.token = "internal" /\ flags # {"hmac_ok"}
         THEN Refused(wipe_auth_token(mu), [keys EXCEPT !.pri = [keys.pri EXCEPT !.state = "got", !.flags = flags, !.auth = "false"]])
       ELSE IF ~Ok(p) \/ ~Ok(s)
         THEN Refused(mu, [keys EXCEPT !.pri = [k EXCEPT !.auth = "false"]])
       ELSE IF ~tls_lock_username(mu, user)
         THEN Refused(wipe_auth_token(mu), tls_deauthenticate([keys EXCEPT !.pri = k]))
       ELSE Accepted(mu, [k EXCEPT !.auth = Verdict(p, s, cfg.man /\ ~skip)], user, tok, flags, final)

\* key_method_2_read(): the client's name and password, or token, arrive.
key_method_2_read ==
    /\ keys.pri # NoKey /\ keys.pri.state = "handshake" /\ now < keys.pri.initial + HandWindow
    /\ \E name \in cfg.users, tok \in {NoToken, ctoken}, final \in (IF cfg.final THEN BOOLEAN ELSE {TRUE}) :
         LET given == IF multi.orig = name THEN multi.user ELSE name
             token == tok # NoToken /\ cfg.token # "no"
             flags == IF token THEN verify_auth_token(multi, given, tok) ELSE {}
             user  == IF token THEN TokenUser(given, tok) ELSE given
             skip  == flags = {"hmac_ok"} /\ cfg.token = "internal"
             asked == ~(token /\ cfg.token = "internal")
             id    == keys.pri.id IN
         \E p \in Returns("plugin", asked), s \in Returns("script", asked) :
           /\ verify_user_pass(user, tok, p, s, skip, flags, final)
           /\ files' = FilesAfter(FilesAfter(files, id, "plugin", p), id, "script", s)
           /\ approved' = approved \cup {<<id, m>> : m \in {x \in FileMethods : (IF x = "plugin" THEN p ELSE s) = "success"}}
    /\ UNCHANGED <<cfg, answers, now, ctoken, logins, nkeys>>

-----------------------------------------------------------------------------
(* Status *)

\* key_state_test_auth_control_file(): the verdict in the file, read unless it is cached.
key_state_test_auth_control_file(k, m, cached) ==
    IF k[m] = "pending" /\ ~cached
      THEN IF <<k.id, m, TRUE>> \in answers THEN "succeeded"
           ELSE IF <<k.id, m, FALSE>> \in answers THEN "failed" ELSE "pending"
      ELSE k[m]

\* ks->authenticated from the three verdicts.
AuthOf(k) ==
    LET verdicts == {k.plugin, k.script, k.man} IN
    IF k.auth = "false" \/ "failed" \in verdicts THEN "false"
    ELSE IF "pending" \in verdicts THEN (IF now >= k.expire THEN "false" ELSE k.auth)
    ELSE "true"

update_key_auth_status(k, cached) ==
    LET read == IF k.auth = "false" THEN k
                ELSE [k EXCEPT !.plugin = key_state_test_auth_control_file(k, "plugin", cached),
                               !.script = key_state_test_auth_control_file(k, "script", cached)]
    IN [read EXCEPT !.auth = AuthOf(read)]

tls_authentication_status_use_cache ==
    LET idx == Least(multi.updates + 1, Cardinality(DOMAIN CacheIntervals)) IN
    multi.last + CacheIntervals[idx] >= now

TLS_AUTHENTICATED(k) == k # NoKey /\ k.state = "got"

\* The names are locked once the client's connection is set up (multi_client_connect_early_setup);
\* --override-username then replaces the user name and renews the token.
Lock(mu) == [mu EXCEPT !.cn = IF @ = Nobody THEN session.cn ELSE @, !.hash = IF @ = Nobody THEN session.hash ELSE @,
                       !.state = "done"]
override_locked_username(mu, k) ==
    IF cfg.override # Nobody /\ mu.orig = Nobody /\ mu.user \notin {Nobody, cfg.override}
      THEN LET named == [mu EXCEPT !.orig = mu.user, !.user = cfg.override,
                                   !.cn = IF cfg.as_cn THEN cfg.override ELSE @]
           IN IF named.initial # NoToken THEN generate_auth_token(named, k, cfg.override) ELSE named
      ELSE mu

\* tls_multi_process(): the status of the tunnel. A failed key ends the connection; the first
\* success completes it, and the push reply carries the token; a renegotiated key sends it too.
tls_authentication_status ==
    /\ multi.state \in {"waiting", "done"}
    /\ LET cached == tls_authentication_status_use_cache
           ks     == [s \in KeySlots |-> IF TLS_AUTHENTICATED(keys[s]) THEN update_key_auth_status(keys[s], cached)
                                                                    ELSE keys[s]]
           live   == {s \in KeySlots : TLS_AUTHENTICATED(ks[s])}
           cache  == IF cached THEN multi
                     ELSE [multi EXCEPT !.last = now, !.updates = Least(@ + 1, Cardinality(DOMAIN CacheIntervals))]
           good   == {s \in live : ks[s].auth = "true"}
           done   == IF good # {} /\ multi.state = "waiting" THEN override_locked_username(Lock(cache), ks.pri) ELSE cache
           sends  == done.token # NoToken /\ ks.pri \notin {NoKey} /\ ks.pri.auth = "true"
                     /\ (multi.state = "waiting" \/ keys.pri.auth # "true")
       IN /\ live # {}
          /\ IF \E s \in live : ks[s].auth = "false"
               THEN /\ multi' = [cache EXCEPT !.state = "dead"]
                    /\ keys' = [s \in KeySlots |-> NoKey]
                    /\ files' = {}
                    /\ UNCHANGED <<session, ctoken, logins>>
               ELSE /\ multi' = done
                    /\ keys' = ks
                    /\ session' = IF done.orig # Nobody /\ multi.orig = Nobody /\ cfg.as_cn
                                    THEN [session EXCEPT !.cn = done.cn] ELSE session
                    /\ ctoken' = IF sends THEN done.token ELSE ctoken
                    /\ logins' = logins \cup
                         (IF \E s \in good : ks[s].via = "methods" /\ keys[s].auth # "true"
                            THEN {<<u, done.initial.sid>> : u \in {done.user, done.orig}} ELSE {})
                         \cup (IF good # {} /\ multi.state = "waiting" THEN {<<done.user, done.initial.sid>>} ELSE {})
                    /\ UNCHANGED files
    /\ UNCHANGED <<cfg, answers, now, approved, nkeys>>

\* check_send_auth_token(): the renewal timer sends a fresh token.
check_send_auth_token ==
    /\ cfg.token # "no"
    /\ multi.state = "done" /\ multi.initial # NoToken /\ multi.user # Nobody
    /\ keys.pri # NoKey /\ keys.pri.state = "got" /\ keys.pri.auth = "true"
    /\ multi.token.t < now
    /\ multi' = generate_auth_token(multi, keys.pri, multi.user)
    /\ ctoken' = multi'.token
    /\ UNCHANGED <<cfg, keys, session, files, answers, now, approved, logins, nkeys>>

-----------------------------------------------------------------------------
(* Back ends and time *)

\* A plugin or script writes its verdict into the control file of a key, if the file still exists.
BackEndAnswers ==
    \E f \in files, ok \in BOOLEAN :
      /\ f[3] = "control"
      /\ \A b \in BOOLEAN : <<f[1], f[2], b>> \notin answers
      /\ answers' = answers \cup {<<f[1], f[2], ok>>}
      /\ approved' = IF ok THEN approved \cup {<<f[1], f[2]>>} ELSE approved
      /\ UNCHANGED <<cfg, multi, keys, session, files, now, ctoken, logins, nkeys>>

\* client-auth and client-deny for a key, whatever its state: also for one that is settled, that
\* a token has opened, or that has not been asked about.
tls_authenticate_key ==
    /\ cfg.man
    /\ \E s \in KeySlots, auth \in BOOLEAN :
         /\ keys[s] # NoKey
         /\ keys' = [keys EXCEPT ![s].man = IF auth THEN "succeeded" ELSE "failed"]
         /\ approved' = IF auth THEN approved \cup {<<keys[s].id, "man">>} ELSE approved
    /\ UNCHANGED <<cfg, multi, session, files, answers, now, ctoken, logins, nkeys>>

\* client-pending-auth: the key of the active session waits longer.
management_client_pending_auth ==
    /\ cfg.man /\ cfg.pending
    /\ keys.pri # NoKey /\ keys.pri.state = "got"
    /\ keys.pri.auth = "deferred"
    /\ keys' = [keys EXCEPT !.pri = send_auth_pending_messages(@, HandWindow + HalfReneg)]
    /\ keys' # keys
    /\ UNCHANGED <<cfg, multi, session, files, answers, now, ctoken, approved, logins, nkeys>>

Tick ==
    /\ now < Start + cfg.seconds
    /\ now' = now + 1
    /\ UNCHANGED <<cfg, multi, keys, session, files, answers, ctoken, approved, logins, nkeys>>

-----------------------------------------------------------------------------

NewKey(id) ==
    [id |-> id, state |-> "handshake", user |-> Nobody, cert |-> Nobody, via |-> Nobody, flags |-> {}, auth |-> "false",
     plugin |-> "disabled", script |-> "disabled", man |-> "pending", initial |-> now,
     expire |-> now + Least(HandWindow, HalfReneg)]

NewMulti == [user |-> Nobody, orig |-> Nobody, cn |-> Nobody, hash |-> Nobody, token |-> NoToken,
             initial |-> NoToken, state |-> "waiting", last |-> 0, updates |-> 0]

Init ==
    /\ cfg \in Configs
    /\ multi = [NewMulti EXCEPT !.state = "dead"]
    /\ keys = [s \in KeySlots |-> NoKey]
    /\ session = [cn |-> Nobody, hash |-> Nobody]
    /\ files = {} /\ answers = {} /\ approved = {} /\ logins = {}
    /\ now = Start /\ ctoken = NoToken /\ nkeys = 0

\* The TLS handshake of a new key: the callback has named the session after the certificate by
\* the time it accepts or refuses it.
Handshake(ks, mu, c) ==
    LET id == nkeys + 1 IN
    /\ nkeys' = id
    /\ session' = [cn |-> c.cn, hash |-> c.name]
    /\ IF verify_callback(c)
         THEN keys' = [ks EXCEPT !.pri = [NewKey(id) EXCEPT !.cert = c.name]] /\ multi' = mu
         ELSE keys' = [s \in KeySlots |-> NoKey] /\ multi' = [mu EXCEPT !.state = "dead"]

\* A client connects: a new tls_multi.
Connect ==
    /\ multi.state = "dead" /\ nkeys < cfg.keys
    /\ \E c \in {x \in Certs : x.name \in cfg.certs} : Handshake([s \in KeySlots |-> NoKey], NewMulti, c)
    /\ UNCHANGED <<cfg, files, answers, now, ctoken, approved, logins>>

\* key_state_free() of the old lame duck removes its control files.
Freed(id) == files \ FilesOf(id)

\* key_state_soft_reset() and the handshake that follows.
Renegotiate ==
    /\ multi.state = "done" /\ nkeys < cfg.keys
    /\ keys.pri # NoKey /\ keys.pri.state = "got" /\ keys.pri.auth = "true"
    /\ \E c \in {x \in Certs : x.name \in cfg.certs} :
         /\ verify_callback(c)
         /\ Handshake([pri |-> NoKey, lame |-> keys.pri], multi, c)
    /\ files' = Freed(keys.lame.id)
    /\ UNCHANGED <<cfg, answers, now, ctoken, approved, logins>>

\* The client goes: the instance, its keys and their files are freed.
Disconnect ==
    /\ multi.state # "dead"
    /\ multi' = [multi EXCEPT !.state = "dead"]
    /\ keys' = [s \in KeySlots |-> NoKey]
    /\ files' = {}
    /\ UNCHANGED <<cfg, session, answers, now, ctoken, approved, logins, nkeys>>

Next ==
    \/ Connect
    \/ Renegotiate
    \/ Disconnect
    \/ key_method_2_read
    \/ tls_authentication_status
    \/ check_send_auth_token
    \/ BackEndAnswers
    \/ tls_authenticate_key
    \/ management_client_pending_auth
    \/ Tick

Spec == Init /\ [][Next]_vars

-----------------------------------------------------------------------------
(* Properties *)

\* A verdict of ks->authenticated, files and names of the declared kinds.
TypeOK ==
    /\ \A s \in KeySlots : keys[s] = NoKey \/ keys[s].auth \in {"false", "deferred", "true"}
    /\ files \subseteq (1..cfg.keys) \X FileMethods \X Kinds
    /\ multi.state \in {"waiting", "done", "dead"}

Cert(name) == CHOOSE c \in Certs : c.name = name

\* A key that is fully authenticated was accepted by every configured method, or by a valid
\* token of a session in which they accepted the same user, and belongs to the locked user and
\* the locked certificate, which is not revoked as far as the configured check looks: a CRL file
\* is only asked under --ca, and only if it has a list of the issuer.
TrustedIsApproved ==
    \A s \in KeySlots : keys[s] # NoKey /\ keys[s].auth = "true" =>
      /\ keys[s].via = "methods" => \A m \in Methods : <<keys[s].id, m>> \in approved
      /\ keys[s].via = "token" => <<keys[s].user, multi.initial.sid>> \in logins
      /\ keys[s].user \in {multi.user, multi.orig}
      /\ multi.hash # Nobody => keys[s].cert = multi.hash
      /\ cfg.crl = "dir" \/ (cfg.crl = "file" /\ ~cfg.no_ca) => ~Cert(keys[s].cert).revoked
      /\ Cert(keys[s].cert).usage

\* The client's token opens no session after its lifetime, counted from the login that began it,
\* nor outside of its own renewal window, nor for another name than the one it was made for.
TokenInTime ==
    (keys.pri # NoKey /\ keys.pri.state = "handshake"
       /\ keys'.pri # NoKey /\ keys'.pri.auth = "true" /\ keys'.pri.via = "token")
    => /\ Lifetime # 0 => now <= multi'.initial.t0 + Lifetime
       /\ ctoken.t <= now /\ now < ctoken.t + 2 * Renewal
       /\ ctoken.user = keys'.pri.user

\* A control file on disk belongs to a key that may still read it.
FilesHaveOwners ==
    \A f \in files : \E s \in KeySlots : keys[s].id = f[1]

=============================================================================
