---- MODULE MCMigrations ----
EXTENDS Migrations

\* Every fact that a statement of some revision looks at.
RowFacts ==
  {<<"row", t, "-">> : t \in {"organizations", "users", "audit_logs"}}
    \union {<<"null", "audit_logs", c>> : c \in {"actor_user_id", "organization_id", "resource_id"}}
    \union {<<"dangling", "audit_logs", c>> : c \in {"actor_user_id", "organization_id"}}
====
