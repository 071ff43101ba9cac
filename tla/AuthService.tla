---------------------------- MODULE AuthService ----------------------------
(***************************************************************************)
(* The authentication service (src/demo/auth-service/src/main.rs): a map   *)
(* from identities to public keys under one lock, so that each handler is  *)
(* one step.                                                               *)
(***************************************************************************)

EXTENDS HashMap

VARIABLE credentials

AsInit == credentials = EmptyMap

(* POST /register answers 409 Conflict for a known identity.               *)
AsConflict(id) == id \in DOMAIN credentials

AsRegister(id, key) ==
  /\ ~AsConflict(id)
  /\ credentials' = MapInsert(credentials, id, key)

(* GET /lookup/{identity} answers with the key, or with 404.               *)
AsFound(id, key) == id \in DOMAIN credentials /\ credentials[id] = key
=============================================================================
