--------------------------- MODULE MCSystemConfig ---------------------------
EXTENDS SystemConfig, TLC
CONSTANTS g1, g2, ca, key, x, y, z, s, r1, r2

\* Two logins on one broker, one behind a host with an underscore, and a socket that has
\* the address of the first.
Address == (x :> "at") @@ (y :> "at") @@ (z :> "a_t") @@ (s :> "at")
MqttBrokers == {x, y, z}
Underscored == {"a_t"}

\* No data source; a broker; contents of one certificate, of another, or of one with a
\* path to elsewhere or to a file of the system.
Body(b, path, cert) == [broker |-> b, path |-> path, cert |-> cert]
MCBodies ==
    {Body("none", NoPaths, {}), Body(z, NoPaths, {}), Body(s, NoPaths, {}),
     Body(x, [NoPaths EXCEPT ![key] = "other"], {ca}),
     Body(y, [NoPaths EXCEPT ![ca] = g1], {key})}

\* Bodies that name no file: the system alone keeps the certificates.
KeptBodies == {Body(x, NoPaths, {ca}), Body(y, NoPaths, {ca, key})}

\* Requests in flight are interchangeable.
RequestSymmetry == Permutations(Requests)
=============================================================================
