\* One path on one port, under one name.
SPECIFICATION SvSpec
CONSTANTS
    Hosts = {"phone.ts.net"}
    Ports = {443}
    Mounts = {"/"}
INVARIANT PublicationsProcessScoped
