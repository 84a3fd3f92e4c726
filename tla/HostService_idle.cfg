SPECIFICATION Spec
CONSTANTS
    Clients = {c1, c2}
    Renderers = {d1}
    Interfaces = {i1, i2}
    Files = {f1, f2}
    Ports = {8000}
    MaxServers = 2
    MaxFiles = 2
    MaxMapped = 2
SYMMETRY Same
INVARIANTS
    ServersHostFiles
