-------------------------------- MODULE MCSchema --------------------------------
\* Instances of Schema: the two revisions, three alembic processes at once.
EXTENDS Schema
================================================================================
