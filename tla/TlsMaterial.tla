------------------------------ MODULE TlsMaterial ------------------------------
(* TLS material of a listener: identities and client CAs read from PEM     *)
(* files, the contexts built from them for QUIC (BoringSSL), for the       *)
(* TCP bootstrap listener and for the control API (rustls), and the        *)
(* certificate each of them picks for a server name                        *)
(* (edge/quic_listener/tls_runtime.rs).                                    *)
(*                                                                         *)
(* A file system is a function from paths to contents: the certificates    *)
(* and the private keys a file holds, and whether it can be read (it       *)
(* exists, is a regular file, is within MAX_TLS_PEM_BYTES and parses).  A  *)
(* DNS name is the sequence of its labels in lower case.  Every failure    *)
(* has the same effect, so a load returns <<>> for any of them.            *)
EXTENDS Integers, Sequences

Readable(files, path) == path \in DOMAIN files /\ files[path].ok

(* load_tls_cert_chain_from_pem_file, load_tls_private_key_from_pem_file.  *)
CertsIn(files, path) == IF Readable(files, path) THEN files[path].certs ELSE <<>>
KeysIn(files, path) == IF Readable(files, path) THEN files[path].keys ELSE {}

ValidAt(cert, now) == cert.from <= now /\ now <= cert.until

(* A leaf and a key that match.                                            *)
CertifiedKey(files, id) ==
    LET certs == CertsIn(files, id.cert)
    IN IF certs # <<>> /\ Head(certs).key \in KeysIn(files, id.key) THEN <<Head(certs)>>
       ELSE <<>>

(* load_listener_identity: the metadata is that of the leaf.               *)
LoadIdentity(files, id, now) ==
    LET leaf == CertifiedKey(files, id)
    IN IF leaf = <<>> \/ ~ValidAt(leaf[1], now) THEN <<>>
       ELSE <<[id |-> id, leaf |-> leaf[1]]>>

(* certificate_name_matches: a wildcard stands for exactly one label.      *)
NameMatches(pattern, name) ==
    \/ pattern = name
    \/ Head(pattern) = "*" /\ Len(name) = Len(pattern) /\ Tail(name) = Tail(pattern)

CoversServerName(cert, name) == \E pattern \in cert.names : NameMatches(pattern, name)

(* load_client_auth_ca: <<{}>> without client authentication.              *)
LoadClientCa(files, clientAuth) ==
    IF ~clientAuth.enabled THEN <<{}>>
    ELSE IF ~Readable(files, clientAuth.ca) THEN <<>>
    ELSE LET certs == files[clientAuth.ca].certs
         IN <<{certs[i].serial : i \in DOMAIN certs}>>

(* load_listener_tls_material.                                             *)
LoadMaterial(files, tls, now) ==
    LET base == LoadIdentity(files, tls.base, now)
        loaded == [n \in DOMAIN tls.sni |-> LoadIdentity(files, tls.sni[n], now)]
        ca == LoadClientCa(files, tls.clientAuth)
        Usable(n) == loaded[n] # <<>> /\ CoversServerName(loaded[n][1].leaf, n)
    IN IF base = <<>> \/ ca = <<>> \/ (\E n \in DOMAIN loaded : ~Usable(n)) THEN <<>>
       ELSE <<[base |-> base[1], sni |-> [n \in DOMAIN loaded |-> loaded[n][1]],
               roots |-> ca[1], clientAuth |-> tls.clientAuth]>>

(* The verifier a client-auth mode asks for; rustls refuses to build one   *)
(* without a root, BoringSSL does not.                                     *)
Verifier(clientAuth) ==
    IF ~clientAuth.enabled THEN "none"
    ELSE IF clientAuth.required THEN "required" ELSE "optional"

(* build_quic_ssl_context_builder_for_identity and QuicSniCertMaterial:    *)
(* BoringSSL reads the files again and checks that the key matches.        *)
QuicIdentity(files, id) == CertifiedKey(files, id)

(* build_quic_ssl_context_builder.                                         *)
QuicContext(files, m) ==
    LET base == QuicIdentity(files, m.base.id)
        sni == [n \in DOMAIN m.sni |-> QuicIdentity(files, m.sni[n].id)]
        Bad(n) == sni[n] = <<>> \/ ~CoversServerName(m.sni[n].leaf, n)
    IN IF base = <<>> \/ (\E n \in DOMAIN sni : Bad(n)) THEN <<>>
       ELSE <<[base |-> base[1], sni |-> [n \in DOMAIN sni |-> sni[n][1]],
               verifier |-> Verifier(m.clientAuth), roots |-> m.roots]>>

(* build_quic_config: loaded and checked with rustls, then built for QUIC; *)
(* here both reads see the same files.                                     *)
QuicConfig(files, tls, now) ==
    LET material == LoadMaterial(files, tls, now)
    IN IF material = <<>> THEN <<>> ELSE QuicContext(files, material[1])

(* build_server_tls_config_from_loaded.                                    *)
ServerTlsConfig(material) ==
    LET verifier == Verifier(material.clientAuth)
        Refused(n) == ~CoversServerName(material.sni[n].leaf, n)
    IN IF (verifier # "none" /\ material.roots = {}) \/ (\E n \in DOMAIN material.sni : Refused(n))
       THEN <<>>
       ELSE <<[base |-> material.base.leaf,
               sni |-> [n \in DOMAIN material.sni |-> material.sni[n].leaf],
               verifier |-> verifier, roots |-> material.roots]>>

(* build_listener_tls_reload_state.                                        *)
ReloadState(files, tls, now) ==
    LET material == LoadMaterial(files, tls, now)
    IN IF material = <<>> THEN <<>> ELSE ServerTlsConfig(material[1])

(* load_control_api_client_auth_roots: a CA file, then every PEM-like file *)
(* of a directory, any of which fails the load.                            *)
AdminRoots(files, clientAuth) ==
    LET paths == clientAuth.caFiles
    IN IF paths = {} \/ (\E p \in paths : ~Readable(files, p)) THEN <<>>
       ELSE <<UNION {{files[p].certs[i].serial : i \in DOMAIN files[p].certs} : p \in paths}>>

(* build_control_api_server_tls_config, from the primary listener's        *)
(* material and the control API's own client authentication.               *)
AdminTlsConfig(files, tls, clientAuth, now) ==
    LET material == LoadMaterial(files, tls, now)
        roots == IF clientAuth.mode = "disabled" THEN <<{}>> ELSE AdminRoots(files, clientAuth)
        own == [enabled |-> clientAuth.mode # "disabled", required |-> clientAuth.mode = "required"]
    IN IF material = <<>> \/ roots = <<>> THEN <<>>
       ELSE ServerTlsConfig([material[1] EXCEPT !.roots = roots[1], !.clientAuth = own])

(* The select-certificate callback and FallbackServerCertResolver.         *)
Selected(config, serverName) ==
    IF serverName # <<>> /\ serverName[1] \in DOMAIN config.sni THEN config.sni[serverName[1]]
    ELSE config.base

(* classify_downstream_tls_cert_selection, which goes by the listener's    *)
(* configuration, not by the context the handshake used.                   *)
Selection(tls, serverName) ==
    IF serverName # <<>> /\ serverName[1] \in DOMAIN tls.sni THEN "exact_sni"
    ELSE IF DOMAIN tls.sni = {} THEN "default_only"
    ELSE IF serverName = <<>> THEN "fallback_no_sni" ELSE "fallback_unmatched_sni"
================================================================================
